---- MODULE Spec2Model ----
(***************************************************************************)
(* Multi-step form engine: FormManager (navigation state machine),         *)
(* StepManager (step index and wrapper resolver), Navigation (click        *)
(* delegation, skip-to), Validation (required-field gate) and the          *)
(* edit-mode controller of FormManager.                                    *)
(*                                                                         *)
(* The document is a sequence of steps; each step is the sequence of its   *)
(* descendant elements in document order.  Step indices are 0-based as in  *)
(* the code, element indices are 1-based positions in the step and parent  *)
(* 0 denotes the step container itself.                                    *)
(***************************************************************************)
EXTENDS Integers, Sequences, FiniteSets, TLC

\* ------------------------------------------------------------------------
\* Bounds
\* ------------------------------------------------------------------------

\* longest navigation history that is explored
MaxHist == 4

\* longest navigation history that is explored on a form with a summary,
\* where the edit mode and its timeouts multiply the states
MaxEditHist == 3

\* most deferred callbacks of one kind that are pending at once
MaxTimers == 1

\* the Field Records a summary is generated from are at most MaxEntries
MaxEntries == 3

\* ------------------------------------------------------------------------
\* Elements and attributes
\* ------------------------------------------------------------------------

\* getAttribute() result null / hasAttribute() false
NoAttr == "<absent>"

\* an element of a step: tag, class, data-answer, data-go-to,
\* data-branch="true", required, name, parent element
El(tag, cls, answer, goTo, branch, required, name, parent) ==
  [tag |-> tag, cls |-> cls, answer |-> answer, goTo |-> goTo,
   branch |-> branch, required |-> required, name |-> name, parent |-> parent]

Div(cls, answer, goTo, branch, parent) ==
  El("div", cls, answer, goTo, branch, FALSE, "", parent)

Radio(name, goTo, required, parent) ==
  El("radio", "", NoAttr, goTo, FALSE, required, name, parent)

Text(name, required, parent) ==
  El("text", "", NoAttr, NoAttr, FALSE, required, name, parent)

\* a step container: data-form-no-input, and its descendants
StepEl(noInput, els) ==
  [noInput |-> noInput, els |-> els]

\* a form: its steps, whether it holds a data-form="summary" container,
\* and the data-skip keys of its skip-to controls
FormEl(steps, summary, skips) ==
  [steps |-> steps, summary |-> summary, skips |-> skips]

\* String.prototype.toLowerCase on the keys that occur in the documents
ToLowerCase(s) ==
  CASE s = "BIZ" -> "biz"
    [] s = "Personal" -> "personal"
    [] OTHER -> s

\* String.prototype.trim on the field values that occur
Trim(v) ==
  IF v = " " THEN "" ELSE v

\* values a text control is given
Values == {"", " ", "x"}

\* ------------------------------------------------------------------------
\* Documents
\* ------------------------------------------------------------------------

sw == "step_wrapper"

si == "step_item"

\* the three-step branching wizard: default step, decision step with two
\* choices, destination step with one wrapper per choice
FormScenario ==
  FormEl(<<
    StepEl(FALSE, <<Div(sw, "", NoAttr, FALSE, 0),
                    Text("email", TRUE, 1)>>),
    StepEl(FALSE, <<Div(sw, "", NoAttr, TRUE, 0),
                    Radio("kind", "biz", FALSE, 1),
                    Radio("kind", "personal", FALSE, 1)>>),
    StepEl(FALSE, <<Div(sw, "biz", NoAttr, FALSE, 0),
                    Div(sw, "personal", NoAttr, FALSE, 0)>>)
  >>, FALSE, {"personal"})

\* keys that differ in letter case, a dangling destination, a choice
\* without destination key
FormLegacy ==
  FormEl(<<
    StepEl(FALSE, <<Div(sw, "", NoAttr, TRUE, 0),
                    Text("who", TRUE, 1),
                    Radio("q", "biz", FALSE, 1),
                    Radio("q", "Personal", FALSE, 1),
                    Radio("q", "zzz", FALSE, 1),
                    Radio("plain", NoAttr, FALSE, 1)>>),
    StepEl(FALSE, <<Div(sw, "BIZ", NoAttr, FALSE, 0),
                    Div(sw, "other", NoAttr, FALSE, 0)>>),
    StepEl(FALSE, <<Div(sw, "biz", NoAttr, FALSE, 0),
                    Div(sw, "personal", NoAttr, FALSE, 0)>>)
  >>, FALSE, {})

\* nested items: under a keyed container (one of them keyed like a choice
\* of the step), under a default container (mixed structure), under a
\* container without key and under a container keyed like one of them
FormNested ==
  FormEl(<<
    StepEl(FALSE, <<Div(sw, "main", NoAttr, TRUE, 0),
                    Div(si, "", NoAttr, FALSE, 1),
                    Radio("n", "A", FALSE, 2),
                    Radio("n", "B", FALSE, 2),
                    Div(si, "B", NoAttr, FALSE, 1)>>),
    StepEl(FALSE, <<Div(sw, "", NoAttr, FALSE, 0),
                    Div(si, "A", NoAttr, FALSE, 1),
                    Div(si, "B", NoAttr, FALSE, 1),
                    Div(si, "C", NoAttr, FALSE, 1)>>),
    StepEl(FALSE, <<Div(sw, NoAttr, NoAttr, FALSE, 0),
                    Div(si, "A", NoAttr, FALSE, 1),
                    Div(si, "B", NoAttr, FALSE, 1)>>),
    StepEl(FALSE, <<Div(sw, "B", NoAttr, FALSE, 0),
                    Div(si, "A", NoAttr, FALSE, 1),
                    Div(si, "B", NoAttr, FALSE, 1)>>)
  >>, FALSE, {"B", "C"})

\* a sequential step with an explicit destination, an input-free step
\* without any wrapper, a step whose wrappers do not match
FormSequential ==
  FormEl(<<
    StepEl(FALSE, <<Div(sw, "", "c", FALSE, 0)>>),
    StepEl(TRUE,  <<Text("t", TRUE, 0)>>),
    StepEl(FALSE, <<Div(sw, "c", NoAttr, FALSE, 0),
                    Div(sw, "d", NoAttr, FALSE, 0)>>)
  >>, FALSE, {"d"})

\* a wizard with a summary on its last step: a field under the default
\* wrapper and a field under a keyed wrapper
FormReview ==
  FormEl(<<
    StepEl(FALSE, <<Div(sw, "", NoAttr, FALSE, 0),
                    Text("first", FALSE, 1)>>),
    StepEl(FALSE, <<Div(sw, "A", NoAttr, FALSE, 0),
                    Text("a1", TRUE, 1),
                    Div(sw, "B", NoAttr, FALSE, 0)>>),
    StepEl(FALSE, <<Div(sw, "", NoAttr, FALSE, 0)>>)
  >>, TRUE, {})

\* a wizard of one step
FormSingle ==
  FormEl(<<
    StepEl(FALSE, <<Div(sw, "", NoAttr, FALSE, 0),
                    Text("only", TRUE, 1)>>)
  >>, TRUE, {})

\* a decision point whose one choice carries an empty destination key
FormBlankKey ==
  FormEl(<<
    StepEl(FALSE, <<Div(sw, "", NoAttr, TRUE, 0),
                    Radio("r", "", FALSE, 1)>>),
    StepEl(FALSE, <<Div(sw, "", NoAttr, FALSE, 0)>>)
  >>, FALSE, {})

\* a form authored for the legacy engine: choices that carry destination
\* keys, no data-branch, the keyed wrappers on the step that follows
FormLinear ==
  FormEl(<<
    StepEl(FALSE, <<Div(sw, "", NoAttr, FALSE, 0),
                    Radio("r", "a", FALSE, 1),
                    Radio("r", "b", FALSE, 1)>>),
    StepEl(FALSE, <<Div(sw, "a", NoAttr, FALSE, 0),
                    Radio("s", "c", FALSE, 1),
                    Div(sw, "b", NoAttr, FALSE, 0),
                    Radio("s", "d", FALSE, 3)>>),
    StepEl(FALSE, <<Div(sw, "c", NoAttr, FALSE, 0),
                    Div(sw, "d", NoAttr, FALSE, 0)>>)
  >>, FALSE, {})

\* a decision point of two required choices, followed by a sequential
\* step whose wrappers carry destination keys of their own, one answer key
\* carried by two of them and a required choice under the first of them
FormDuplicate ==
  FormEl(<<
    StepEl(FALSE, <<Div(sw, "", NoAttr, TRUE, 0),
                    Radio("r", "a", TRUE, 1),
                    Radio("r", "b", TRUE, 1)>>),
    StepEl(FALSE, <<Div(sw, "a", "x", FALSE, 0),
                    Radio("q", NoAttr, TRUE, 1),
                    Div(sw, "b", "y", FALSE, 0),
                    Div(sw, "b", NoAttr, FALSE, 0)>>),
    StepEl(FALSE, <<Div(sw, "x", NoAttr, FALSE, 0),
                    Div(sw, "y", NoAttr, FALSE, 0)>>)
  >>, FALSE, {})

\* a form without any data-form="step" container
FormEmpty ==
  FormEl(<<>>, FALSE, {})

Forms ==
  {FormScenario, FormLegacy, FormNested, FormSequential, FormReview,
   FormSingle, FormEmpty, FormBlankKey, FormDuplicate}

\* ------------------------------------------------------------------------
\* State
\* ------------------------------------------------------------------------

VARIABLES
  form,            \* FormManager.form: the document it was built on
  build,           \* the Validation class in use: of "core/Validation.js" or
                   \* of the bundle
  phase,           \* "constructed" until init() has run, then "ready"
  currentStep,     \* FormManager.currentStep
  history,         \* FormManager.history
  selectedAnswer,  \* StepManager.selectedAnswer
  currentIndex,    \* Navigation.currentIndex
  stepDisplay,     \* style.display of every step container
  display,         \* style.display of every element of every step
  checked,         \* the checked radios, as <<step, element>>
  value,           \* the value of every text control
  editBar,         \* FormManager.editBar: the field it was built for, or None
  errors,          \* the controls that carry the class field-error
  editTimers,      \* pending editField timeouts (100 ms), field names
  saveTimers,      \* pending save-and-return timeouts (600 ms)
  last,            \* the handler that ran last, what it was given, the path
                   \* it took, what it dispatched, its showStep calls, and
                   \* whether it repeats the handler before it
  formIds,         \* the id attribute of the two form elements of a page
  storage,         \* localStorage: the item under every key in use
  quota,           \* whether localStorage.setItem accepts a write
  live,            \* whether the Memory of a form has been constructed
  data,            \* Memory.data of every form
  flushes,         \* pending _debouncedPersist timeouts of every Memory
  controls,        \* the value of the named controls of every form
  did,             \* the Memory method that ran last, on which form, whether
                   \* it threw, the input events restoreValues dispatched
                   \* and what getAllValues returned
  entries,         \* Memory.data.values as Summary.generate reads it
  groups,          \* what Summary.generate returned
  legacy           \* the legacy FormManager over the same document: its
                   \* currentStep, the selectedAnswer of its StepManager and
                   \* the wrappers its showStep left displayed

navVars ==
  <<form, build, phase, currentStep, history, selectedAnswer, currentIndex,
    stepDisplay, display, checked, value, editBar, errors, editTimers,
    saveTimers, last, legacy>>

storeVars ==
  <<formIds, storage, quota, live, data, flushes, controls, did>>

summaryVars ==
  <<entries, groups>>

vars ==
  <<navVars, storeVars, summaryVars>>

None == [step |-> -1, el |-> 0]

\* StepManager.steps.length
Total == Len(form.steps)

\* the steps by their 0-based index
StepIdx == 0 .. (Total - 1)

\* the descendants of step s in document order
Els(s) == form.steps[s + 1].els

ElIdx(s) == 1 .. Len(Els(s))

\* the smallest element of a non-empty set of positions: the first in
\* document order, as querySelector and Array.prototype.find return it
First(S) == CHOOSE e \in S : \A o \in S : e <= o

\* the one forEach visits last
Latest(S) == CHOOSE e \in S : \A o \in S : o <= e

\* the ancestors of element e inside step s (the step container excluded)
RECURSIVE Ancestors(_, _)
Ancestors(s, e) ==
  IF Els(s)[e].parent = 0 THEN {}
  ELSE {Els(s)[e].parent} \cup Ancestors(s, Els(s)[e].parent)

\* the elements of step s below element p; below the step container, p = 0,
\* these are all of them
Descendants(s, p) ==
  IF p = 0 THEN ElIdx(s) ELSE {e \in ElIdx(s) : p \in Ancestors(s, e)}

\* element.closest('.step_wrapper') inside step s: the nearest of e and its
\* ancestors of that class, 0 when there is none
ClosestStepWrapper(s, e) ==
  LET C == {a \in {e} \cup Ancestors(s, e) : Els(s)[a].cls = "step_wrapper"}
  IN IF C = {} THEN 0 ELSE Latest(C)

\* element.closest('[data-answer]') inside step s, 0 when there is none
ClosestAnswer(s, e) ==
  LET C == {a \in {e} \cup Ancestors(s, e) : Els(s)[a].answer # NoAttr}
  IN IF C = {} THEN 0 ELSE Latest(C)

\* ------------------------------------------------------------------------
\* StepManager
\* ------------------------------------------------------------------------

\* discoverSteps: the wrappers of step s are its descendants that carry
\* data-answer
Wrappers(s) == {e \in ElIdx(s) : Els(s)[e].answer # NoAttr}

\* discoverSteps: the type of a wrapper
WrapperType(s, e) ==
  IF Els(s)[e].cls = si THEN "step_item"
  ELSE IF Els(s)[e].cls = sw THEN "step_wrapper"
  ELSE "other"

\* showWrapper, first pass: a wrapper is shown when its key is the
\* requested one and hidden otherwise
FirstPass(s, d, answerValue) ==
  [e \in ElIdx(s) |->
     IF e \in Wrappers(s)
     THEN (IF Els(s)[e].answer = answerValue THEN "flex" ELSE "none")
     ELSE d[e]]

\* a nested pass that leaves the enclosing .step_wrapper as the first pass
\* left it
NestedPass_ItemOnly(s, d, target) ==
  LET parentElement == Els(s)[target].parent
      siblings == {e \in Descendants(s, parentElement) :
                     Els(s)[e].cls = si /\ e # target}
  IN [e \in ElIdx(s) |-> IF e \in siblings THEN "none" ELSE d[e]]

\* showWrapper, nested structure: the enclosing .step_wrapper of the shown
\* step_item is shown, the other .step_item elements below its parent are
\* hidden
NestedPass(s, d, target) ==
  LET parentWrapper == ClosestStepWrapper(s, target)
      parentElement == Els(s)[target].parent
      siblings == {e \in Descendants(s, parentElement) :
                     Els(s)[e].cls = si /\ e # target}
  IN [e \in ElIdx(s) |->
        IF e \in siblings THEN "none"
        ELSE IF e = parentWrapper THEN "flex"
        ELSE d[e]]

\* a fallback that shows nothing
FallbackPass_Nothing(s, d) ==
  d

\* showWrapper, fallback: the first wrapper is shown, and its enclosing
\* .step_wrapper when it is a step_item
FallbackPass(s, d) ==
  LET firstWrapper == First(Wrappers(s))
      parentWrapper == IF WrapperType(s, firstWrapper) = "step_item"
                       THEN ClosestStepWrapper(s, firstWrapper)
                       ELSE 0
  IN [e \in ElIdx(s) |->
        IF e = firstWrapper \/ e = parentWrapper THEN "flex" ELSE d[e]]

\* StepManager.showWrapper(stepObj, answerValue): the style.display of the
\* elements of step s afterwards, d being their style.display before
ShowWrapper(s, d, answerValue) ==
  LET matches == {e \in Wrappers(s) : Els(s)[e].answer = answerValue}
      shown == matches # {}
      d1 == FirstPass(s, d, answerValue)
  IN IF shown
     THEN (IF WrapperType(s, Latest(matches)) = "step_item"
           THEN NestedPass(s, d1, Latest(matches))
           ELSE d1)
     ELSE (IF Wrappers(s) # {} THEN FallbackPass(s, d1) ELSE d1)

\* a showStep that asks for the recorded key on every step
AnswerVal_Recorded(index, selected) ==
  selected

\* the key showStep asks the wrapper resolver for
AnswerVal(index, selected) ==
  IF index = 0 THEN "" ELSE selected

\* StepManager.showStep(index) on the engine state r
ShowStep(r, index) ==
  [r EXCEPT
     !.stepDisplay = [s \in StepIdx |-> IF s = index THEN "flex" ELSE "none"],
     !.display = IF index \in StepIdx
                 THEN [r.display EXCEPT ![index] =
                         ShowWrapper(index, r.display[index],
                                     AnswerVal(index, r.selectedAnswer))]
                 ELSE r.display,
     !.shows = IF index \in StepIdx
               THEN Append(r.shows, [index |-> index,
                                     key |-> AnswerVal(index, r.selectedAnswer)])
               ELSE r.shows]

\* ------------------------------------------------------------------------
\* Validation
\* ------------------------------------------------------------------------

\* the radios of step s named n
RadioGroup(s, n) ==
  {e \in ElIdx(s) : Els(s)[e].tag = "radio" /\ Els(s)[e].name = n}

\* Validation.validateField(fieldEl) for element e of step s
ValidateField(s, e) ==
  IF Els(s)[e].tag \notin {"radio", "text"} THEN TRUE
  ELSE IF Els(s)[e].tag = "radio"
  THEN \E g \in RadioGroup(s, Els(s)[e].name) : <<s, g>> \in checked
  ELSE Trim(value[<<s, e>>]) # ""

\* Validation.showError(fieldEl, message): the marked controls afterwards,
\* m being the marked controls before
ShowError(m, s, e) ==
  m \cup {<<s, e>>}

\* the marked controls after validateField(fieldEl) for element e of step s
FieldErrors(m, s, e) ==
  IF ValidateField(s, e) THEN m ELSE ShowError(m, s, e)

\* a clearErrors that removes nothing
ClearErrors_Keep(m, s) ==
  m

\* Validation.clearErrors(stepElement): no control of step s stays marked
ClearErrors(m, s) ==
  {p \in m : p[1] # s}

\* validateStep: requiredFields.forEach(field => validateField(field))
RECURSIVE ValidateEach(_, _, _)
ValidateEach(m, s, fields) ==
  IF fields = {} THEN m
  ELSE ValidateEach(FieldErrors(m, s, First(fields)), s,
                    fields \ {First(fields)})

\* the marked controls after validateStep(stepElement) for step s
StepErrors(m, s) ==
  IF build = "bundle" /\ form.steps[s + 1].noInput THEN m
  ELSE ValidateEach(ClearErrors(m, s), s,
                    {e \in ElIdx(s) : Els(s)[e].required})

\* Validation.validateStep(stepElement) of core/Validation.js for step s
ValidateStepModule(s) ==
  \A e \in ElIdx(s) : Els(s)[e].required => ValidateField(s, e)

\* Validation.validateStep(stepElement) of the bundle for step s: a step
\* that carries data-form-no-input is valid
ValidateStepBundle(s) ==
  IF form.steps[s + 1].noInput THEN TRUE
  ELSE \A e \in ElIdx(s) : Els(s)[e].required => ValidateField(s, e)

\* the two Validation classes the repository holds
Builds == {"module", "bundle"}

\* the classes document f is run with: they differ on steps that carry
\* data-form-no-input only, a document without such a step is run with one
BuildsFor(f) ==
  IF \E i \in 1 .. Len(f.steps) : f.steps[i].noInput THEN Builds
  ELSE {"bundle"}

\* this.validation.validateStep(currentStepEl) for step s
ValidateStep(s) ==
  IF build = "bundle" THEN ValidateStepBundle(s) ELSE ValidateStepModule(s)

\* ------------------------------------------------------------------------
\* FormManager
\* ------------------------------------------------------------------------

\* what a handler dispatched or raised: stepChange and formComplete events,
\* the error shake, the two alert dialogs of nextStep, the shake of the edit
\* bar, the call of memory.saveAllFields
Evt(type, step) == [type |-> type, step |-> step]

\* a goToStep that takes index N for a step
GoToStep_OffByOne(r, index) ==
  LET shown == ShowStep([r EXCEPT
                 !.currentStep = index,
                 !.history = IF r.history[Len(r.history)] # index
                             THEN Append(r.history, index)
                             ELSE r.history], index)
      moved == [shown EXCEPT
                 !.currentIndex = index,
                 !.events = Append(shown.events, Evt("stepChange", index))]
  IN IF index < 0 \/ index > Total THEN r ELSE moved

\* a goToStep that does not record the step in the history
GoToStep_NoRecord(r, index) ==
  LET shown == ShowStep([r EXCEPT !.currentStep = index], index)
      moved == [shown EXCEPT
                 !.currentIndex = index,
                 !.events = Append(shown.events, Evt("stepChange", index))]
  IN IF index < 0 \/ index >= Total THEN r ELSE moved

\* a goToStep that records the step even when it is the latest entry
GoToStep_AlwaysRecord(r, index) ==
  LET shown == ShowStep([r EXCEPT
                 !.currentStep = index,
                 !.history = Append(r.history, index)], index)
      moved == [shown EXCEPT
                 !.currentIndex = index,
                 !.events = Append(shown.events, Evt("stepChange", index))]
  IN IF index < 0 \/ index >= Total THEN r ELSE moved

\* a goToStep that raises formComplete on every arrival at the last step
GoToStep_CompleteOnLast(r, index) ==
  LET prev == r.currentStep
      shown == ShowStep([r EXCEPT
                 !.currentStep = index,
                 !.history = IF r.history[Len(r.history)] # index
                             THEN Append(r.history, index)
                             ELSE r.history], index)
      moved == [shown EXCEPT
                 !.currentIndex = index,
                 !.editBar = IF prev # index THEN None ELSE shown.editBar,
                 !.events = Append(shown.events, Evt("stepChange", index))]
  IN IF index < 0 \/ index >= Total THEN r
     ELSE IF index = Total - 1
     THEN [moved EXCEPT !.events = Append(moved.events, Evt("formComplete", -1))]
     ELSE moved

\* FormManager.goToStep(index) on the engine state r
GoToStep(r, index) ==
  LET prev == r.currentStep
      shown == ShowStep([r EXCEPT
                 !.currentStep = index,
                 !.history = IF r.history[Len(r.history)] # index
                             THEN Append(r.history, index)
                             ELSE r.history], index)
      moved == [shown EXCEPT
                 !.currentIndex = index,
                 !.editBar = IF prev # index THEN None ELSE shown.editBar,
                 !.events = Append(shown.events, Evt("stepChange", index))]
  IN IF index < 0 \/ index >= Total THEN r
     ELSE IF index = Total - 1 /\ prev = index
     THEN [moved EXCEPT !.events = Append(moved.events, Evt("formComplete", -1))]
     ELSE moved

\* FormManager._findWrapperGraceful: the first .step_wrapper of the step,
\* else its first [data-answer] element, else the step container (0)
FindWrapperGraceful(s) ==
  IF \E e \in ElIdx(s) : Els(s)[e].cls = sw
  THEN First({e \in ElIdx(s) : Els(s)[e].cls = sw})
  ELSE IF Wrappers(s) # {} THEN First(Wrappers(s))
  ELSE 0

\* FormManager._detectBranchingStep: data-branch="true" on the wrapper or
\* on any descendant of the step (the step containers of the documents
\* carry no attribute but data-form and data-form-no-input)
DetectBranchingStep(s, wrapper) ==
  \/ wrapper # 0 /\ Els(s)[wrapper].branch
  \/ \E e \in ElIdx(s) : Els(s)[e].branch

\* a radio search that settles for any checked radio
FindRadioGraceful_AnyChecked(s) ==
  LET anyChecked == {e \in ElIdx(s) : /\ Els(s)[e].tag = "radio"
                                      /\ <<s, e>> \in checked}
  IN IF anyChecked # {} THEN First(anyChecked) ELSE 0

\* FormManager._findRadioGraceful: the first checked radio that carries
\* data-go-to; 0 (null) when there is none
FindRadioGraceful(s) ==
  LET withGoTo == {e \in ElIdx(s) : /\ Els(s)[e].tag = "radio"
                                    /\ Els(s)[e].goTo # NoAttr
                                    /\ <<s, e>> \in checked}
      anyChecked == {e \in ElIdx(s) : /\ Els(s)[e].tag = "radio"
                                      /\ <<s, e>> \in checked}
  IN IF withGoTo # {} THEN First(withGoTo)
     ELSE IF anyChecked # {} /\ Els(s)[First(anyChecked)].goTo = NoAttr THEN 0
     ELSE IF anyChecked # {} THEN First(anyChecked)
     ELSE 0

\* FormManager._findSequentialTarget: data-go-to of the wrapper, else of
\* the first descendant of the step that carries one, else null
FindSequentialTarget(s, wrapper) ==
  IF wrapper # 0 /\ Els(s)[wrapper].goTo # NoAttr THEN Els(s)[wrapper].goTo
  ELSE IF \E e \in ElIdx(s) : Els(s)[e].goTo # NoAttr
  THEN Els(s)[First({e \in ElIdx(s) : Els(s)[e].goTo # NoAttr})].goTo
  ELSE NoAttr

\* the two empty results of the DOM and array searches
JsNull == 0

JsUndefined == -1

\* FormManager._findAnswerElementGraceful(step, targetAnswer): the first
\* element with exactly that data-answer; else what Array.prototype.find
\* returns for the case-insensitive search, which is undefined when no
\* element passes
FindAnswerElementGraceful(s, targetAnswer) ==
  LET exact == {e \in Wrappers(s) : Els(s)[e].answer = targetAnswer}
      relaxed == {e \in Wrappers(s) :
                    ToLowerCase(Els(s)[e].answer) = ToLowerCase(targetAnswer)}
  IN IF exact # {} THEN First(exact)
     ELSE IF relaxed # {} THEN First(relaxed)
     ELSE JsUndefined

\* nextStep: steps.findIndex(step => _findAnswerElementGraceful(...) !== null)
TargetStepIndex(targetAnswer) ==
  LET found == {s \in StepIdx :
                  FindAnswerElementGraceful(s, targetAnswer) # JsNull}
  IN IF found = {} THEN -1 ELSE First(found)

\* a string that is neither null nor empty
Truthy(str) == str # NoAttr /\ str # ""

\* nextStep: the destination key it obtains on step s, NoAttr for null;
\* only read when the step is not a branching step without choice
TargetAnswer(s) ==
  IF DetectBranchingStep(s, FindWrapperGraceful(s))
  THEN (IF FindRadioGraceful(s) # 0
        THEN Els(s)[FindRadioGraceful(s)].goTo ELSE NoAttr)
  ELSE FindSequentialTarget(s, FindWrapperGraceful(s))

\* a nextStep whose sequential fallthrough clears the recorded key
NextStep_ClearsKey(r) ==
  LET s == r.currentStep
      wrapper == FindWrapperGraceful(s)
      targetAnswer == TargetAnswer(s)
      targetStepIndex == TargetStepIndex(targetAnswer)
  IN IF DetectBranchingStep(s, wrapper) /\ FindRadioGraceful(s) = 0
     THEN [r EXCEPT !.events = Append(r.events, Evt("errorShake", -1)),
                    !.path = "noChoice"]
     ELSE IF Truthy(targetAnswer)
     THEN (IF targetStepIndex > -1
           THEN GoToStep([r EXCEPT
                            !.selectedAnswer = targetAnswer,
                            !.events = Append(r.events, Evt("alertSuccess", -1)),
                            !.path = "keyed"],
                         targetStepIndex)
           ELSE [r EXCEPT !.events = Append(r.events, Evt("alertError", -1)),
                          !.path = "dangling"])
     ELSE GoToStep([r EXCEPT !.selectedAnswer = "",
                             !.path = "fallthrough"], s + 1)

\* FormManager.nextStep() on the engine state r
NextStep(r) ==
  LET s == r.currentStep
      wrapper == FindWrapperGraceful(s)
      targetAnswer == TargetAnswer(s)
      targetStepIndex == TargetStepIndex(targetAnswer)
  IN IF DetectBranchingStep(s, wrapper) /\ FindRadioGraceful(s) = 0
     THEN [r EXCEPT !.events = Append(r.events, Evt("errorShake", -1)),
                    !.path = "noChoice"]
     ELSE IF Truthy(targetAnswer)
     THEN (IF targetStepIndex > -1
           THEN GoToStep([r EXCEPT
                            !.selectedAnswer = targetAnswer,
                            !.events = Append(r.events, Evt("alertSuccess", -1)),
                            !.path = "keyed"],
                         targetStepIndex)
           ELSE [r EXCEPT !.events = Append(r.events, Evt("alertError", -1)),
                          !.path = "dangling"])
     ELSE GoToStep([r EXCEPT !.path = "fallthrough"], s + 1)

\* navigation.handleNext as the FormManager constructor redefines it; with
\* no step at currentStep, steps[currentStep] is undefined and reading its
\* element property throws a TypeError out of the click listener
HandleNext(r) ==
  IF r.currentStep \notin StepIdx THEN [r EXCEPT !.path = "fault"]
  ELSE IF ValidateStep(r.currentStep)
  THEN NextStep([r EXCEPT !.errors = StepErrors(r.errors, r.currentStep)])
  ELSE [r EXCEPT !.errors = StepErrors(r.errors, r.currentStep),
                 !.events = Append(r.events, Evt("errorShake", -1)),
                 !.path = "invalid"]

\* a previousStep that pops the history and returns to the entry below
PreviousStep_Pops(r) ==
  LET h == r.history
      back == IF Len(h) > 1 THEN SubSeq(h, 1, Len(h) - 1) ELSE h
      to == back[Len(back)]
  IN IF Len(h) <= 1 THEN r
     ELSE [ShowStep([r EXCEPT !.currentStep = to, !.history = back], to)
             EXCEPT !.currentIndex = to,
                    !.events = Append(r.events, Evt("stepChange", to))]

\* a previousStep that returns to the step visited before the current one
PreviousStep_Visited(r) ==
  GoToStep(r, IF Len(r.history) > 1
              THEN r.history[Len(r.history) - 1]
              ELSE r.currentStep - 1)

\* FormManager.previousStep()
PreviousStep(r) ==
  GoToStep(r, r.currentStep - 1)

\* the named controls of the form
\* every element of the form, as <<step, element>>
AllEls ==
  UNION {{<<s, e>> : e \in ElIdx(s)} : s \in StepIdx}

Names ==
  {Els(p[1])[p[2]].name : p \in AllEls} \ {""}

\* root.querySelector('[name="..."]'): the first control of that name in
\* document order, None when there is none
FieldNamed(name) ==
  LET S == {s \in StepIdx : \E e \in ElIdx(s) : Els(s)[e].name = name}
  IN IF S = {} THEN None
     ELSE [step |-> First(S),
           el |-> First({e \in ElIdx(First(S)) : Els(First(S))[e].name = name})]

\* Summary.getFieldLocation(fieldName).wrapperAnswer: data-answer of the
\* closest [data-answer] element, NoAttr for null
WrapperAnswer(f) ==
  IF ClosestAnswer(f.step, f.el) = 0 THEN NoAttr
  ELSE Els(f.step)[ClosestAnswer(f.step, f.el)].answer

\* whether editField(fieldName) gets past its early returns
EditFieldRuns(name) ==
  form.summary /\ FieldNamed(name) # None

\* an editField that goes to the step of the field without recording the
\* key of its wrapper
EditField_StepOnly(r, name) ==
  IF ~EditFieldRuns(name) THEN r
  ELSE GoToStep(r, FieldNamed(name).step)

\* FormManager.editField(fieldName) up to the timeout it sets
EditField(r, name) ==
  IF ~EditFieldRuns(name) THEN r
  ELSE GoToStep([r EXCEPT !.selectedAnswer =
                            IF WrapperAnswer(FieldNamed(name)) # NoAttr
                            THEN WrapperAnswer(FieldNamed(name))
                            ELSE r.selectedAnswer],
                FieldNamed(name).step)

\* a return that lands on the first step instead of the last
NavigateToSummary_First(r) ==
  GoToStep(r, 0)

\* FormManager._navigateToSummary()
NavigateToSummary(r) ==
  GoToStep(r, Total - 1)

\* FormManager._removeEditBar()
RemoveEditBar(r) ==
  [r EXCEPT !.editBar = None]

\* the skip-to branch of the click listener of Navigation.attachListeners
SkipTo(r, skipTo) ==
  LET found == {s \in StepIdx :
                  \E e \in Wrappers(s) : Els(s)[e].answer = skipTo}
  IN IF found = {} THEN r
     ELSE ShowStep([r EXCEPT !.currentIndex = First(found)], First(found))

\* ------------------------------------------------------------------------
\* Legacy FormManager
\* ------------------------------------------------------------------------

\* the legacy engine before init()
LegacyIdle == [currentStep |-> 0, selectedAnswer |-> "", shown |-> {}]

\* legacy StepManager.showWrapper(stepObj, answerValue): the wrappers whose
\* key is the value, the first wrapper when there is none
LegacyShowWrapper(s, answerValue) ==
  LET match == {e \in Wrappers(s) : Els(s)[e].answer = answerValue}
  IN IF match # {} THEN match
     ELSE IF Wrappers(s) # {} THEN {First(Wrappers(s))}
     ELSE {}

\* legacy StepManager.showStep(index)
LegacyShowStep(l, index) ==
  [l EXCEPT !.shown = LegacyShowWrapper(index, IF index = 0 THEN ""
                                                ELSE l.selectedAnswer)]

\* legacy FormManager.goToStep(index)
LegacyGoToStep(l, index) ==
  IF index < 0 \/ index >= Total THEN l
  ELSE LegacyShowStep([l EXCEPT !.currentStep = index], index)

\* legacy FormManager.nextStep() behind the validation of handleNext
LegacyHandleNext(l) ==
  IF ValidateStep(l.currentStep) THEN LegacyGoToStep(l, l.currentStep + 1)
  ELSE l

\* legacy FormManager.previousStep()
LegacyPreviousStep(l) ==
  LegacyGoToStep(l, l.currentStep - 1)

\* the change listener of ConditionalLogic on the radio f, which carries
\* data-go-to
LegacyChange(l, f) ==
  IF Els(f[1])[f[2]].goTo # NoAttr
  THEN [l EXCEPT !.selectedAnswer = Els(f[1])[f[2]].goTo]
  ELSE l

\* ------------------------------------------------------------------------
\* Memory
\* ------------------------------------------------------------------------

\* the two forms of a page
Insts == {1, 2}

\* the document of either form
Doc(i) == IF i = 1 THEN FormReview ELSE FormSingle

\* form.elements that are named text controls, in document order, each with
\* the index of its step
ControlsOf(f) ==
  LET RECURSIVE OfStep(_, _)
      OfStep(s, e) ==
        IF s > Len(f.steps) THEN <<>>
        ELSE IF e > Len(f.steps[s].els) THEN OfStep(s + 1, 1)
        ELSE IF f.steps[s].els[e].tag = "text" /\ f.steps[s].els[e].name # ""
        THEN <<[name |-> f.steps[s].els[e].name, stepIndex |-> s - 1]>>
               \o OfStep(s, e + 1)
        ELSE OfStep(s, e + 1)
  IN OfStep(1, 1)

Range(q) == {q[k] : k \in 1 .. Len(q)}

Named(i) == {c.name : c \in Range(ControlsOf(Doc(i)))}

\* the values a control takes
StoreValues == {"", "x"}

\* the id attributes the form elements carry, "" for none: an id occurs
\* once in a document
FormIds == {"", "a"}

IdPairs ==
  {p \in FormIds \X FormIds : p[1] = p[2] => p[1] = ""}

\* Memory.storageKey
StorageKey(id) ==
  IF id # "" THEN <<"form-memory-", id>> ELSE <<"form-memory-", "default">>

Key(i) == StorageKey(formIds[i])

\* localStorage.getItem on a key without item
NoItem == <<"<no item>">>

\* Number.prototype.toString and its inverse on the step indices, Boolean
\* likewise
NumText(n) ==
  CASE n = -1 -> "-1" [] n = 0 -> "0" [] n = 1 -> "1" [] n = 2 -> "2"

TextNum(s) ==
  CASE s = "-1" -> -1 [] s = "0" -> 0 [] s = "1" -> 1 [] s = "2" -> 2

BoolText(b) == IF b THEN "true" ELSE "false"

TextBool(s) == s = "true"

\* Memory.data as the constructor's default and saveField build it: the
\* Field Records in the insertion order of their keys (timestamps left out)
ObjectData(values) == [kind |-> "object", values |-> values]

\* what JSON.parse returns for the texts null and 5
NullData == [kind |-> "null", values |-> <<>>]

NumberData == [kind |-> "number", values |-> <<>>]

\* JSON.stringify(this.data): the members of every record, in order
RECURSIVE Members(_)
Members(values) ==
  IF values = <<>> THEN <<>>
  ELSE <<Head(values).name, Head(values).value,
         NumText(Head(values).stepIndex), Head(values).fieldType,
         BoolText(Head(values).isVisible)>> \o Members(Tail(values))

Stringify(d) == <<"{">> \o Members(d.values) \o <<"}">>

\* the items found in storage that no Memory wrote: the empty string, a
\* text that is not JSON, the JSON texts null and 5
Foreign == {<<>>, <<"{">>, <<"null">>, <<"5">>}

\* JSON.parse of the text of an object that holds Field Records
RECURSIVE Records(_)
Records(tokens) ==
  IF tokens = <<>> THEN <<>>
  ELSE <<[name |-> tokens[1], value |-> tokens[2],
          stepIndex |-> TextNum(tokens[3]), fieldType |-> tokens[4],
          isVisible |-> TextBool(tokens[5])]>>
         \o Records(SubSeq(tokens, 6, Len(tokens)))

WellFormed(raw) ==
  /\ Len(raw) >= 2
  /\ raw[1] = "{"
  /\ raw[Len(raw)] = "}"
  /\ (Len(raw) - 2) % 5 = 0

\* Memory._loadFromStorage(): no item and the empty string give the
\* default, a text that does not parse is caught and gives the default,
\* anything that parses is returned as it is
LoadFromStorage(raw) ==
  IF raw = NoItem \/ raw = <<>> THEN ObjectData(<<>>)
  ELSE IF raw = <<"null">> THEN NullData
  ELSE IF raw = <<"5">> THEN NumberData
  ELSE IF WellFormed(raw)
  THEN ObjectData(Records(SubSeq(raw, 2, Len(raw) - 1)))
  ELSE ObjectData(<<>>)

\* this.data.values[name] = {...}: an existing key keeps its place
Upsert(values, rec) ==
  IF \E k \in 1 .. Len(values) : values[k].name = rec.name
  THEN [k \in 1 .. Len(values) |->
          IF values[k].name = rec.name THEN rec ELSE values[k]]
  ELSE Append(values, rec)

\* the Memory of one form while a method runs: its data, its pending
\* timeouts, the storage, the controls of its form and those of them that
\* are in layout (all of them until FormManager.init() runs), whether it
\* threw, the input events dispatched, the value returned
Mem(i) ==
  [data |-> data[i], flushes |-> flushes[i], storage |-> storage,
   controls |-> controls[i], shown |-> Named(i), key |-> Key(i),
   fault |-> FALSE, fired |-> <<>>, out |-> <<>>]

\* a _debouncedPersist that sets a timeout without clearing the pending one
DebouncedPersist_NoClear(m) ==
  [m EXCEPT !.flushes = @ + 1]

\* Memory._debouncedPersist(): clearTimeout on the handle, which is the
\* timeout set last, then a new timeout
DebouncedPersist(m) ==
  [m EXCEPT !.flushes = (IF @ > 0 THEN @ - 1 ELSE 0) + 1]

\* Memory.saveField(name, value, meta): on a primitive this.data the
\* assignment of this.data.values throws in the strict code of a class
SaveField(m, rec) ==
  IF m.fault THEN m
  ELSE IF m.data.kind # "object" THEN [m EXCEPT !.fault = TRUE]
  ELSE DebouncedPersist([m EXCEPT !.data.values = Upsert(@, rec)])

\* Memory._saveFromElement(el) for the text control c: isVisible is
\* whether the control is in layout at this moment
SaveFromElement(m, c) ==
  SaveField(m, [name |-> c.name, value |-> m.controls[c.name],
                stepIndex |-> c.stepIndex, fieldType |-> "text",
                isVisible |-> c.name \in m.shown])

\* Memory._persistToStorage(): the assignment of lastUpdated throws on a
\* primitive this.data; a setItem that throws is caught
PersistToStorage(m) ==
  IF m.fault THEN m
  ELSE IF m.data.kind # "object" THEN [m EXCEPT !.fault = TRUE]
  ELSE IF quota THEN [m EXCEPT !.storage[m.key] = Stringify(m.data)]
  ELSE m

\* Memory.saveAllFields(): every named control through _saveFromElement,
\* then _persistToStorage at once
RECURSIVE SaveEach(_, _)
SaveEach(m, cs) ==
  IF cs = <<>> THEN m
  ELSE SaveEach(SaveFromElement(m, Head(cs)), Tail(cs))

SaveAllFields(m, cs) ==
  PersistToStorage(SaveEach(m, cs))

\* a restoreValues that sets the controls and dispatches nothing
RestoreEach_NoEvent(m, values, names) ==
  [m EXCEPT !.controls =
     [n \in names |->
        IF \E r \in Range(values) : r.name = n
        THEN (CHOOSE r \in Range(values) : r.name = n).value
        ELSE m.controls[n]]]

\* Memory.restoreValues() over the entries of this.data.values: the first
\* control of the name takes the value and is sent one input event, which
\* does not bubble to the listener of the form
RECURSIVE RestoreEach(_, _, _)
RestoreEach(m, values, names) ==
  IF values = <<>> THEN m
  ELSE IF Head(values).name \in names
  THEN RestoreEach([m EXCEPT !.controls[Head(values).name] =
                                 Head(values).value,
                             !.fired = Append(@, Head(values).name)],
                   Tail(values), names)
  ELSE RestoreEach(m, Tail(values), names)

\* Memory.restoreValues(): reading this.data.values throws when this.data
\* is null, and gives undefined on a number
RestoreValues(m, names) ==
  IF m.data.kind = "null" THEN [m EXCEPT !.fault = TRUE]
  ELSE RestoreEach(m, m.data.values, names)

\* new Memory(form, stepManager) on a page that was just loaded: its
\* controls hold their defaults, no timeout is pending
Construct(m, names) ==
  RestoreValues([m EXCEPT !.data = LoadFromStorage(m.storage[m.key]),
                          !.flushes = 0,
                          !.controls = [n \in names |-> ""]], names)

\* Memory.getAllValues()
RECURSIVE PairsOf(_)
PairsOf(values) ==
  IF values = <<>> THEN <<>>
  ELSE <<<<Head(values).name, Head(values).value>>>> \o PairsOf(Tail(values))

GetAllValues(m) ==
  [m EXCEPT !.out = PairsOf(m.data.values)]

\* the navigation engine at rest, for the specifications of the store
NavIdle ==
  /\ form = FormReview
  /\ build = "bundle"
  /\ phase = "constructed"
  /\ currentStep = 0
  /\ history = <<0>>
  /\ selectedAnswer = ""
  /\ currentIndex = 0
  /\ stepDisplay = <<>>
  /\ display = <<>>
  /\ checked = {}
  /\ value = <<>>
  /\ editBar = None
  /\ errors = {}
  /\ editTimers = <<>>
  /\ saveTimers = 0
  /\ last = [op |-> "new", argI |-> 0, argS |-> "", path |-> "",
             events |-> <<>>, shows |-> <<>>, again |-> FALSE]
  /\ legacy = LegacyIdle

\* the store at rest, for the specifications of the navigation engine
StoreIdle ==
  /\ formIds = <<"", "">>
  /\ storage = <<>>
  /\ quota = TRUE
  /\ live = <<FALSE, FALSE>>
  /\ data = <<ObjectData(<<>>), ObjectData(<<>>)>>
  /\ flushes = <<0, 0>>
  /\ controls = <<<<>>, <<>>>>
  /\ did = [op |-> "new", inst |-> 0, fault |-> FALSE, fired |-> <<>>,
            out |-> <<>>]

SummaryIdle ==
  /\ entries = <<>>
  /\ groups = <<>>

\* ------------------------------------------------------------------------
\* Summary
\* ------------------------------------------------------------------------

\* groups.find(g => g.index === stepIndex): its position, 0 for undefined
FindGroup(gs, stepIndex) ==
  IF \E k \in 1 .. Len(gs) : gs[k].index = stepIndex
  THEN First({k \in 1 .. Len(gs) : gs[k].index = stepIndex})
  ELSE 0

\* a forEach body that takes the records that are not visible as well
AddEntry_Hidden(gs, entry) ==
  LET item == [fieldName |-> entry.name, value |-> entry.value]
      k == FindGroup(gs, entry.stepIndex)
  IN IF k = 0
     THEN Append(gs, [index |-> entry.stepIndex, items |-> <<item>>])
     ELSE [gs EXCEPT ![k].items = Append(@, item)]

\* the forEach body of Summary.generate() for one Field Record
AddEntry(gs, entry) ==
  LET item == [fieldName |-> entry.name, value |-> entry.value]
      k == FindGroup(gs, entry.stepIndex)
  IN IF ~entry.isVisible THEN gs
     ELSE IF k = 0
     THEN Append(gs, [index |-> entry.stepIndex, items |-> <<item>>])
     ELSE [gs EXCEPT ![k].items = Append(@, item)]

RECURSIVE AddEntries(_, _)
AddEntries(gs, es) ==
  IF es = <<>> THEN gs
  ELSE AddEntries(AddEntry(gs, Head(es)), Tail(es))

\* groups.sort((a, b) => a.index - b.index)
RECURSIVE SortGroups(_)
SortGroups(gs) ==
  IF gs = <<>> THEN <<>>
  ELSE LET least == First({gs[k].index : k \in 1 .. Len(gs)})
           at == First({k \in 1 .. Len(gs) : gs[k].index = least})
       IN <<gs[at]>>
            \o SortGroups(SubSeq(gs, 1, at - 1) \o SubSeq(gs, at + 1, Len(gs)))

\* Summary.generate()
GenerateGroups(es) ==
  SortGroups(AddEntries(<<>>, es))

\* ------------------------------------------------------------------------
\* Specification
\* ------------------------------------------------------------------------

\* the engine state a handler starts from
Engine ==
  [currentStep |-> currentStep, history |-> history,
   selectedAnswer |-> selectedAnswer, currentIndex |-> currentIndex,
   stepDisplay |-> stepDisplay, display |-> display, editBar |-> editBar,
   errors |-> errors, events |-> <<>>, shows |-> <<>>, path |-> ""]

\* the handlers that run off a timeout
Timeouts == {"editTimer", "saveTimer"}

\* the handler op, given argI and argS, leaves the engine in state r; the
\* user stops when the history is MaxHist long (MaxEditHist on a form with
\* a summary), a pending timeout still fires
Apply(engine, op, argI, argS) ==
  \E r \in {engine} :
    /\ \/ op \in Timeouts
       \/ Len(r.history) <= (IF form.summary THEN MaxEditHist ELSE MaxHist)
    /\ currentStep' = r.currentStep
    /\ history' = r.history
    /\ selectedAnswer' = r.selectedAnswer
    /\ currentIndex' = r.currentIndex
    /\ stepDisplay' = r.stepDisplay
    /\ display' = r.display
    /\ editBar' = r.editBar
    /\ errors' = r.errors
    /\ last' = [op |-> op, argI |-> argI, argS |-> argS, path |-> r.path,
                events |-> r.events, shows |-> r.shows,
                again |-> (last.op = op /\ last.argI = argI /\ last.argS = argS)]

TextFields ==
  {p \in AllEls : Els(p[1])[p[2]].tag = "text"}

Radios ==
  {p \in AllEls : Els(p[1])[p[2]].tag = "radio"}

\* the state the FormManager constructor leaves: nothing shown yet
InitOn(documents) ==
  /\ StoreIdle
  /\ SummaryIdle
  /\ legacy = LegacyIdle
  /\ form \in documents
  /\ build \in BuildsFor(form)
  /\ phase = "constructed"
  /\ currentStep = 0
  /\ history = <<0>>
  /\ selectedAnswer = ""
  /\ currentIndex = 0
  /\ stepDisplay = [s \in StepIdx |-> ""]
  /\ display = [s \in StepIdx |-> [e \in ElIdx(s) |-> ""]]
  /\ checked = {}
  /\ value = [f \in TextFields |-> ""]
  /\ editBar = None
  /\ errors = {}
  /\ editTimers = <<>>
  /\ saveTimers = 0
  /\ last = [op |-> "new", argI |-> 0, argS |-> "", path |-> "",
             events |-> <<>>, shows |-> <<>>, again |-> FALSE]

Init ==
  InitOn(Forms)

\* FormManager.init()
InitForm ==
  /\ phase = "constructed"
  /\ phase' = "ready"
  /\ Apply(GoToStep(Engine, 0), "init", 0, "")
  /\ UNCHANGED <<storeVars, summaryVars, legacy>>
  /\ UNCHANGED <<form, build, checked, value, editTimers, saveTimers>>

\* FormManager.goToStep(index) called through the public interface
GoTo(index) ==
  /\ phase = "ready"
  /\ Apply(GoToStep(Engine, index), "goTo", index, "")
  /\ UNCHANGED <<storeVars, summaryVars, legacy>>
  /\ UNCHANGED <<form, build, phase, checked, value, editTimers, saveTimers>>

\* a click on a data-form="next-btn" element
ClickNext ==
  /\ phase = "ready"
  /\ Apply(HandleNext(Engine), "next", currentStep, "")
  /\ UNCHANGED <<storeVars, summaryVars, legacy>>
  /\ UNCHANGED <<form, build, phase, checked, value, editTimers, saveTimers>>

\* a click on a data-form="back-btn" element
ClickBack ==
  /\ phase = "ready"
  /\ Apply(PreviousStep(Engine), "back", currentStep, "")
  /\ UNCHANGED <<storeVars, summaryVars, legacy>>
  /\ UNCHANGED <<form, build, phase, checked, value, editTimers, saveTimers>>

\* a click on a control that carries data-skip
Skip(skipTo) ==
  /\ phase = "ready"
  /\ Apply(SkipTo(Engine, skipTo), "skip", 0, skipTo)
  /\ UNCHANGED <<storeVars, summaryVars, legacy>>
  /\ UNCHANGED <<form, build, phase, checked, value, editTimers, saveTimers>>

\* an editField event on the form
JumpToField(name) ==
  /\ phase = "ready"
  /\ EditFieldRuns(name) => Len(editTimers) < MaxTimers
  /\ Apply(EditField(Engine, name), "editField", 0, name)
  /\ editTimers' = IF EditFieldRuns(name)
                   THEN Append(editTimers, name) ELSE editTimers
  /\ UNCHANGED <<storeVars, summaryVars, legacy>>
  /\ UNCHANGED <<form, build, phase, checked, value, saveTimers>>

\* the timeout of editField fires: _showEditBar(field)
EditTimer ==
  /\ editTimers # <<>>
  /\ editTimers' = Tail(editTimers)
  /\ Apply([Engine EXCEPT !.editBar =
                             IF FieldNamed(Head(editTimers)) # None
                             THEN FieldNamed(Head(editTimers))
                             ELSE editBar],
           "editTimer", 0, Head(editTimers))
  /\ UNCHANGED <<storeVars, summaryVars, legacy>>
  /\ UNCHANGED <<form, build, phase, checked, value, saveTimers>>

\* the save button of the edit bar, or Enter in the edited field
Save ==
  /\ editBar # None
  /\ ValidateField(editBar.step, editBar.el) => saveTimers < MaxTimers
  /\ IF ValidateField(editBar.step, editBar.el)
     THEN /\ saveTimers' = saveTimers + 1
          /\ Apply([Engine EXCEPT !.path = "saved",
                                  !.events = <<Evt("saveAllFields", -1)>>],
                   "save", 0, "")
     ELSE /\ saveTimers' = saveTimers
          /\ Apply([Engine EXCEPT !.path = "retry",
                                  !.errors = FieldErrors(errors, editBar.step,
                                                         editBar.el),
                                  !.events = <<Evt("editShake", -1)>>],
                   "save", 0, "")
  /\ UNCHANGED <<storeVars, summaryVars, legacy>>
  /\ UNCHANGED <<form, build, phase, checked, value, editTimers>>

\* the timeout of a valid save fires
SaveTimer ==
  /\ saveTimers > 0
  /\ saveTimers' = saveTimers - 1
  /\ Apply(RemoveEditBar(NavigateToSummary(Engine)), "saveTimer", 0, "")
  /\ UNCHANGED <<storeVars, summaryVars, legacy>>
  /\ UNCHANGED <<form, build, phase, checked, value, editTimers>>

\* the cancel button of the edit bar, or Escape in the edited field
Cancel ==
  /\ editBar # None
  /\ Apply(NavigateToSummary(RemoveEditBar(Engine)), "cancel", 0, "")
  /\ UNCHANGED <<storeVars, summaryVars, legacy>>
  /\ UNCHANGED <<form, build, phase, checked, value, editTimers, saveTimers>>

\* the user, or a script, checks radio f: the radios of its name in the
\* form lose the check
Check(f) ==
  /\ phase = "ready"
  /\ f \notin checked
  /\ checked' = {g \in checked : Els(g[1])[g[2]].name # Els(f[1])[f[2]].name}
                  \cup {f}
  /\ last' = [op |-> "check", argI |-> f[1], argS |-> "", path |-> "",
              events |-> <<>>, shows |-> <<>>, again |-> FALSE]
  /\ UNCHANGED <<storeVars, summaryVars, legacy>>
  /\ UNCHANGED <<form, build, phase, currentStep, history, selectedAnswer,
                 currentIndex, stepDisplay, display, value, editBar, errors,
                 editTimers, saveTimers>>

\* the user, or a script, gives text control f the value v
Input(f, v) ==
  /\ phase = "ready"
  /\ value[f] # v
  /\ value' = [value EXCEPT ![f] = v]
  /\ last' = [op |-> "input", argI |-> f[1], argS |-> v, path |-> "",
              events |-> <<>>, shows |-> <<>>, again |-> FALSE]
  /\ UNCHANGED <<storeVars, summaryVars, legacy>>
  /\ UNCHANGED <<form, build, phase, currentStep, history, selectedAnswer,
                 currentIndex, stepDisplay, display, checked, editBar, errors,
                 editTimers, saveTimers>>

Next ==
  \/ InitForm
  \/ \E index \in -1 .. Total : GoTo(index)
  \/ ClickNext
  \/ ClickBack
  \/ \E k \in form.skips : Skip(k)
  \/ \E name \in Names \cup {"nowhere"} : JumpToField(name)
  \/ EditTimer
  \/ Save
  \/ SaveTimer
  \/ Cancel
  \/ \E f \in Radios : Check(f)
  \/ \E f \in TextFields, v \in Values : Input(f, v)

Spec == Init /\ [][Next]_vars

\* edit mode: the forms that have a summary, which hold neither radios nor
\* skip controls; the timeout that a save sets fires
InitEdit ==
  Init /\ form.summary

NextEdit ==
  \/ InitForm
  \/ \E index \in -1 .. Total : GoTo(index)
  \/ ClickNext
  \/ ClickBack
  \/ \E name \in Names \cup {"nowhere"} : JumpToField(name)
  \/ EditTimer
  \/ Save
  \/ SaveTimer
  \/ Cancel
  \/ \E f \in TextFields, v \in Values : Input(f, v)

SpecEdit ==
  InitEdit /\ [][NextEdit]_vars /\ WF_vars(SaveTimer)

\* the method op of the Memory of form i leaves it as the record engine
ApplyStore(i, engine, op) ==
  \E m \in {engine} :
    /\ data' = [data EXCEPT ![i] = m.data]
    /\ flushes' = [flushes EXCEPT ![i] = m.flushes]
    /\ storage' = m.storage
    /\ controls' = [controls EXCEPT ![i] = m.controls]
    /\ did' = [op |-> op, inst |-> i, fault |-> m.fault, fired |-> m.fired,
               out |-> m.out]

\* a page with two forms whose localStorage holds nothing, or something no
\* Memory wrote, under the keys in use
InitPage ==
  /\ NavIdle
  /\ SummaryIdle
  /\ formIds \in IdPairs
  /\ quota \in BOOLEAN
  /\ \E raw \in Foreign \cup {NoItem} :
       storage = [k \in {Key(1), Key(2)} |-> raw]
  /\ live = [i \in Insts |-> FALSE]
  /\ data = [i \in Insts |-> ObjectData(<<>>)]
  /\ flushes = [i \in Insts |-> 0]
  /\ controls = [i \in Insts |-> [n \in Named(i) |-> ""]]
  /\ did = [op |-> "new", inst |-> 0, fault |-> FALSE, fired |-> <<>>,
            out |-> <<>>]

\* new Memory(form, stepManager) when the page is loaded, or loaded again
\* once the pending flush has fired; a constructor that throws leaves no
\* Memory
New(i) ==
  /\ flushes[i] = 0
  /\ ApplyStore(i, Construct(Mem(i), Named(i)), "new")
  /\ live' = [live EXCEPT ![i] = ~Construct(Mem(i), Named(i)).fault]
  /\ UNCHANGED <<navVars, summaryVars, formIds, quota>>

\* the user types v into the control named n: its input event reaches the
\* listener of the form
Type(i, n, v) ==
  /\ live[i]
  /\ \E c \in Range(ControlsOf(Doc(i))) :
       /\ c.name = n
       /\ ApplyStore(i, SaveFromElement([Mem(i) EXCEPT !.controls[n] = v],
                                        c), "type")
  /\ UNCHANGED <<navVars, summaryVars, formIds, quota, live>>

\* the timeout of _debouncedPersist fires
FlushTimer(i) ==
  /\ flushes[i] > 0
  /\ ApplyStore(i, PersistToStorage([Mem(i) EXCEPT !.flushes = @ - 1]),
                "flush")
  /\ UNCHANGED <<navVars, summaryVars, formIds, quota, live>>

\* memory.saveAllFields()
SaveAll(i) ==
  /\ live[i]
  /\ ApplyStore(i, SaveAllFields(Mem(i), ControlsOf(Doc(i))), "saveAll")
  /\ UNCHANGED <<navVars, summaryVars, formIds, quota, live>>

\* memory.restoreValues()
Restore(i) ==
  /\ live[i]
  /\ ApplyStore(i, RestoreValues(Mem(i), Named(i)), "restore")
  /\ UNCHANGED <<navVars, summaryVars, formIds, quota, live>>

\* memory.getAllValues()
ReadAll(i) ==
  /\ live[i]
  /\ ApplyStore(i, GetAllValues(Mem(i)), "readAll")
  /\ UNCHANGED <<navVars, summaryVars, formIds, quota, live>>

\* the two forms of a page, each with its Memory over the one localStorage
NextPage ==
  \/ \E i \in Insts : New(i)
  \/ \E i \in Insts : \E n \in Named(i), v \in StoreValues : Type(i, n, v)
  \/ \E i \in Insts : FlushTimer(i)
  \/ \E i \in Insts : SaveAll(i)

SpecPage ==
  InitPage /\ [][NextPage]_vars

\* the Memory of one form; a timeout that was set fires
InitStore ==
  InitPage /\ formIds = <<"a", "">>

NextStore ==
  \/ New(1)
  \/ \E n \in Named(1), v \in StoreValues : Type(1, n, v)
  \/ FlushTimer(1)
  \/ SaveAll(1)
  \/ Restore(1)
  \/ ReadAll(1)

SpecStore ==
  InitStore /\ [][NextStore]_vars /\ WF_vars(FlushTimer(1))

\* the summary: generate() over any Field Records of up to MaxEntries fields

EntryRecords ==
  [name : {"first", "a1", "b1", "c1"}, value : {"x"}, stepIndex : {-1, 0, 1},
   isVisible : BOOLEAN]

EntryLists ==
  UNION {{es \in [1 .. n -> EntryRecords] :
            \A j, k \in 1 .. n : es[j].name = es[k].name => j = k}
         : n \in 0 .. MaxEntries}

InitSummary ==
  /\ NavIdle
  /\ StoreIdle
  /\ entries \in EntryLists
  /\ groups = <<>>

\* summary.generate()
Generate ==
  /\ groups' = GenerateGroups(entries)
  /\ UNCHANGED <<navVars, storeVars, entries>>

NextSummary ==
  Generate

SpecSummary ==
  InitSummary /\ [][NextSummary]_vars

\* the current and the legacy engine over one legacy document, given the
\* same choices and the same clicks

InitBoth ==
  InitOn({FormLinear})

BothInit ==
  /\ phase = "constructed"
  /\ phase' = "ready"
  /\ Apply(GoToStep(Engine, 0), "init", 0, "")
  /\ legacy' = LegacyGoToStep(legacy, 0)
  /\ UNCHANGED <<storeVars, summaryVars>>
  /\ UNCHANGED <<form, build, checked, value, editTimers, saveTimers>>

BothNext ==
  /\ phase = "ready"
  /\ Apply(HandleNext(Engine), "next", currentStep, "")
  /\ legacy' = LegacyHandleNext(legacy)
  /\ UNCHANGED <<storeVars, summaryVars>>
  /\ UNCHANGED <<form, build, phase, checked, value, editTimers, saveTimers>>

BothBack ==
  /\ phase = "ready"
  /\ Apply(PreviousStep(Engine), "back", currentStep, "")
  /\ legacy' = LegacyPreviousStep(legacy)
  /\ UNCHANGED <<storeVars, summaryVars>>
  /\ UNCHANGED <<form, build, phase, checked, value, editTimers, saveTimers>>

BothCheck(f) ==
  /\ phase = "ready"
  /\ f \notin checked
  /\ checked' = {g \in checked : Els(g[1])[g[2]].name # Els(f[1])[f[2]].name}
                  \cup {f}
  /\ last' = [op |-> "check", argI |-> f[1], argS |-> "", path |-> "",
              events |-> <<>>, shows |-> <<>>, again |-> FALSE]
  /\ legacy' = LegacyChange(legacy, f)
  /\ UNCHANGED <<storeVars, summaryVars>>
  /\ UNCHANGED <<form, build, phase, currentStep, history, selectedAnswer,
                 currentIndex, stepDisplay, display, value, editBar, errors,
                 editTimers, saveTimers>>

NextBoth ==
  \/ BothInit
  \/ BothNext
  \/ BothBack
  \/ \E f \in Radios : BothCheck(f)

SpecLegacy ==
  InitBoth /\ [][NextBoth]_vars

\* the review of a form with a summary: the FormManager, the Field
\* Records of its Memory (entries) and what its Summary rendered last
\* (groups); what the Memory writes to localStorage is left to SpecStore

\* Memory._isElementVisible(el): el.offsetParent is null when the element
\* or an ancestor of it has display none
IsElementVisible(s, e) ==
  /\ stepDisplay[s] # "none"
  /\ \A a \in {e} \cup Ancestors(s, e) : display[s][a] # "none"

\* the named text controls of the form that are in layout
ShownNames ==
  {Els(f[1])[f[2]].name : f \in {g \in TextFields :
                                   IsElementVisible(g[1], g[2])}}

\* the Memory of the form while a method runs
ReviewMem ==
  [data |-> ObjectData(entries), flushes |-> 0,
   storage |-> [k \in {StorageKey("")} |-> NoItem],
   controls |-> [n \in {Els(f[1])[f[2]].name : f \in TextFields} |->
                   value[<<FieldNamed(n).step, FieldNamed(n).el>>]],
   shown |-> ShownNames, key |-> StorageKey(""), fault |-> FALSE,
   fired |-> <<>>, out |-> <<>>]

InitReview ==
  InitOn({FormReview})

\* a click on a data-form="next-btn" element; goToStep updates the summary
\* when the step changes
ReviewNext ==
  /\ phase = "ready"
  /\ Apply(HandleNext(Engine), "next", currentStep, "")
  /\ groups' = IF HandleNext(Engine).currentStep # currentStep
               THEN GenerateGroups(entries) ELSE groups
  /\ UNCHANGED <<storeVars, entries, legacy>>
  /\ UNCHANGED <<form, build, phase, checked, value, editTimers, saveTimers>>

\* an editField event on the form
ReviewJump(name) ==
  /\ phase = "ready"
  /\ EditFieldRuns(name)
  /\ Len(editTimers) < MaxTimers
  /\ Apply(EditField(Engine, name), "editField", 0, name)
  /\ editTimers' = Append(editTimers, name)
  /\ groups' = IF EditField(Engine, name).currentStep # currentStep
               THEN GenerateGroups(entries) ELSE groups
  /\ UNCHANGED <<storeVars, entries, legacy>>
  /\ UNCHANGED <<form, build, phase, checked, value, saveTimers>>

\* the user types v into text control f: the input event reaches the
\* listener of the Memory, which records the control
ReviewType(f, v) ==
  /\ phase = "ready"
  /\ value[f] # v
  /\ value' = [value EXCEPT ![f] = v]
  /\ \E c \in Range(ControlsOf(form)) :
       /\ c.name = Els(f[1])[f[2]].name
       /\ entries' = SaveFromElement(
                       [ReviewMem EXCEPT !.controls[c.name] = v], c).data.values
  /\ last' = [op |-> "input", argI |-> f[1], argS |-> v, path |-> "",
              events |-> <<>>, shows |-> <<>>, again |-> FALSE]
  /\ UNCHANGED <<storeVars, groups, legacy>>
  /\ UNCHANGED <<form, build, phase, currentStep, history, selectedAnswer,
                 currentIndex, stepDisplay, display, checked, editBar, errors,
                 editTimers, saveTimers>>

\* the save button of the edit bar: a valid field has every control
\* recorded and the summary updated at once
ReviewSave ==
  /\ editBar # None
  /\ ValidateField(editBar.step, editBar.el) => saveTimers < MaxTimers
  /\ IF ValidateField(editBar.step, editBar.el)
     THEN /\ saveTimers' = saveTimers + 1
          /\ entries' = SaveAllFields(ReviewMem,
                                      ControlsOf(form)).data.values
          /\ groups' = GenerateGroups(entries')
          /\ Apply([Engine EXCEPT !.path = "saved",
                                  !.events = <<Evt("saveAllFields", -1)>>],
                   "save", 0, "")
     ELSE /\ saveTimers' = saveTimers
          /\ UNCHANGED <<entries, groups>>
          /\ Apply([Engine EXCEPT !.path = "retry",
                                  !.errors = FieldErrors(errors, editBar.step,
                                                         editBar.el),
                                  !.events = <<Evt("editShake", -1)>>],
                   "save", 0, "")
  /\ UNCHANGED <<storeVars, legacy>>
  /\ UNCHANGED <<form, build, phase, checked, value, editTimers>>

\* the timeout of a valid save fires
ReviewReturn ==
  /\ saveTimers > 0
  /\ saveTimers' = saveTimers - 1
  /\ Apply(RemoveEditBar(NavigateToSummary(Engine)), "saveTimer", 0, "")
  /\ groups' = IF NavigateToSummary(Engine).currentStep # currentStep
               THEN GenerateGroups(entries) ELSE groups
  /\ UNCHANGED <<storeVars, entries, legacy>>
  /\ UNCHANGED <<form, build, phase, checked, value, editTimers>>

NextReview ==
  \/ InitForm
  \/ ReviewNext
  \/ \E name \in Names : ReviewJump(name)
  \/ EditTimer
  \/ \E f \in TextFields, v \in StoreValues : ReviewType(f, v)
  \/ ReviewSave
  \/ ReviewReturn

SpecReview ==
  InitReview /\ [][NextReview]_vars

\* ------------------------------------------------------------------------
\* Vocabulary of the properties
\* ------------------------------------------------------------------------

\* step s is flagged as a decision point, on its wrapper or any descendant
Branching(s) == \E e \in ElIdx(s) : Els(s)[e].branch

\* the destination keys of the checked choice-inputs of step s
CheckedChoiceKeys(s) ==
  {Els(s)[e].goTo : e \in {x \in ElIdx(s) : /\ Els(s)[x].tag = "radio"
                                            /\ Els(s)[x].goTo # NoAttr
                                            /\ <<s, x>> \in checked}}

\* the steps that contain an Answer Wrapper whose key is exactly K
ExactSteps(K) ==
  {s \in StepIdx : \E e \in Wrappers(s) : Els(s)[e].answer = K}

\* the steps that contain a wrapper whose key is K up to letter case
RelaxedSteps(K) ==
  {s \in StepIdx : \E e \in Wrappers(s) :
     ToLowerCase(Els(s)[e].answer) = ToLowerCase(K)}

\* some wrapper key differs from K only in letter case
CaseTwin(K) ==
  \E s \in StepIdx : \E e \in Wrappers(s) :
    Els(s)[e].answer # K /\ ToLowerCase(Els(s)[e].answer) = ToLowerCase(K)

\* some element of step s carries a destination key
CarriesGoTo(s) == \E e \in ElIdx(s) : Els(s)[e].goTo # NoAttr

\* a handler dispatched the step-changed notification
StepChanged(events) ==
  \E i \in 1 .. Len(events) : events[i].type = "stepChange"

Raised(events, type) ==
  \E i \in 1 .. Len(events) : events[i].type = type

\* the wrappers of step s that are displayed, and those that are hidden
Visible(d, s) == {e \in Wrappers(s) : d[s][e] = "flex"}

Hidden(d, s) == {e \in Wrappers(s) : d[s][e] = "none"}

\* the wrappers of step s whose key is K
Keyed(s, K) == {e \in Wrappers(s) : Els(s)[e].answer = K}

\* ------------------------------------------------------------------------
\* Properties
\* ------------------------------------------------------------------------

\* C1: on a branching step that passes validation, with a checked
\* choice-input of non-empty destination key K, a wrapper keyed exactly K
\* in some step and no wrapper key that differs from K only in letter case,
\* the next action sets selectedAnswer to K and currentStep to the first
\* step that contains a K wrapper, and on that step (index > 0) the K
\* wrapper is visible and every other wrapper is hidden.
C1_BranchRoundTrip ==
  [][(currentStep \in StepIdx) =>
     (\A K \in CheckedChoiceKeys(currentStep) :
       (/\ last'.op = "next"
        /\ Branching(currentStep)
        /\ ValidateStep(currentStep)
        /\ K # ""
        /\ ExactSteps(K) # {}
        /\ ~CaseTwin(K))
       => /\ selectedAnswer' = K
          /\ currentStep' = First(ExactSteps(K))
          /\ currentStep' > 0 =>
               /\ Visible(display', currentStep') = Keyed(currentStep', K)
               /\ Hidden(display', currentStep') =
                    Wrappers(currentStep') \ Keyed(currentStep', K))]_vars

\* the required fields of step s that fail validation
Unsatisfied(s) ==
  {e \in ElIdx(s) : Els(s)[e].required /\ ~ValidateField(s, e)}

\* the destination key the next action obtains on step s: of the checked
\* choice-inputs on a branching step, else of the primary wrapper or,
\* failing that, of the first descendant that carries one
ObtainedKeys(s) ==
  IF Branching(s) THEN CheckedChoiceKeys(s)
  ELSE {FindSequentialTarget(s, FindWrapperGraceful(s))} \ {NoAttr}

\* step s has a next step, or a destination that resolves to a step
Departs(s) ==
  IF Branching(s) \/ CarriesGoTo(s)
  THEN /\ ObtainedKeys(s) # {}
       /\ \A K \in ObtainedKeys(s) : K # "" /\ RelaxedSteps(K) # {}
  ELSE s + 1 < Total

\* C2: the next action on a step that is not input-free and has an
\* unsatisfied required field leaves currentStep, history and selectedAnswer
\* unchanged and dispatches no stepChange; once every required field of the
\* step is satisfied, the next action changes currentStep, given a next
\* step or a resolvable destination.
C2_ValidationGate ==
  [][(/\ last'.op = "next"
      /\ currentStep \in StepIdx
      /\ ~form.steps[currentStep + 1].noInput)
       => /\ Unsatisfied(currentStep) # {}
               => /\ UNCHANGED <<currentStep, history, selectedAnswer>>
                  /\ ~StepChanged(last'.events)
          /\ (/\ \E e \in ElIdx(currentStep) : Els(currentStep)[e].required
              /\ Unsatisfied(currentStep) = {}
              /\ Departs(currentStep))
               => currentStep' # currentStep]_vars

\* C3: with at least one step, 0 <= currentStep < N in every reachable
\* state, and goToStep(i) with i < 0 or i >= N changes neither currentStep
\* nor history nor what is displayed and dispatches nothing.
C3_IndexInRange ==
  /\ [](Total >= 1 => currentStep \in StepIdx)
  /\ [][(last'.op = "goTo" /\ last'.argI \notin StepIdx)
          => /\ UNCHANGED <<currentStep, history, stepDisplay, display>>
             /\ last'.events = <<>>]_vars

\* C3 witness: goToStep(N) was called on the last of several steps
C3_Witness ==
  /\ last.op = "goTo"
  /\ last.argI = Total
  /\ Total >= 2
  /\ currentStep = Total - 1

\* C4: on a branching step without a checked choice-input that carries a
\* destination key, the next action leaves currentStep, history and
\* selectedAnswer unchanged and signals the error affordance, even when a
\* next step exists and all required fields are valid.
C4_BranchingNeedsChoice ==
  [][(/\ last'.op = "next"
      /\ currentStep \in StepIdx
      /\ Branching(currentStep)
      /\ CheckedChoiceKeys(currentStep) = {}
      /\ ValidateStep(currentStep))
       => /\ UNCHANGED <<currentStep, history, selectedAnswer>>
          /\ Raised(last'.events, "errorShake")]_vars

\* C4 witness: the next action ran on a branching step that has a next
\* step and a satisfied required field, but no choice
C4_Witness ==
  /\ last.op = "next"
  /\ currentStep \in StepIdx
  /\ Branching(currentStep)
  /\ CheckedChoiceKeys(currentStep) = {}
  /\ \E e \in ElIdx(currentStep) : Els(currentStep)[e].required
  /\ ValidateStep(currentStep)
  /\ currentStep + 1 < Total
  /\ Raised(last.events, "errorShake")

\* C5: when the next action obtains a non-empty destination key that
\* matches no Answer Wrapper of any step, neither exactly nor up to letter
\* case, currentStep, history and selectedAnswer are unchanged, no
\* stepChange is dispatched and the engine does not fall through to
\* currentStep + 1.
C5_DanglingKeyHalts ==
  [][(currentStep \in StepIdx) =>
     (\A K \in ObtainedKeys(currentStep) :
       (/\ last'.op = "next"
        /\ ValidateStep(currentStep)
        /\ K # ""
        /\ RelaxedSteps(K) = {})
       => /\ UNCHANGED <<currentStep, history, selectedAnswer>>
          /\ ~StepChanged(last'.events)
          /\ currentStep' # currentStep + 1)]_vars

\* C6: on a valid non-branching step in which nothing carries a
\* destination key, the next action from step i < N-1 makes currentStep
\* i+1, appends i+1 to history and leaves selectedAnswer unchanged.
C6_SequentialFallthrough ==
  [][(/\ last'.op = "next"
      /\ currentStep \in StepIdx
      /\ ValidateStep(currentStep)
      /\ ~Branching(currentStep)
      /\ ~CarriesGoTo(currentStep)
      /\ currentStep < Total - 1)
       => /\ currentStep' = currentStep + 1
          /\ history' = Append(history, currentStep + 1)
          /\ selectedAnswer' = selectedAnswer]_vars

\* C6 witness: the next action fell through from a sequential step while
\* a branch key was recorded
C6_Witness ==
  /\ last.op = "next"
  /\ currentStep = last.argI + 1
  /\ ~Branching(last.argI)
  /\ ~CarriesGoTo(last.argI)
  /\ Len(history) >= 2
  /\ history[Len(history)] = currentStep
  /\ selectedAnswer # ""

\* C7: goToStep(i) called twice in a row with the same in-range i leaves
\* currentStep, history, selectedAnswer and the visible wrappers after the
\* second call as they were after the first.
C7_GoToIdempotent ==
  [][(/\ last.op = "goTo"
      /\ last'.op = "goTo"
      /\ last'.argI = last.argI
      /\ last.argI \in StepIdx)
       => /\ UNCHANGED <<currentStep, history, selectedAnswer>>
          /\ \A s \in StepIdx : Visible(display', s) = Visible(display, s)]_vars

\* C7 witness: the second of two equal goToStep calls, on a later step
\* that shows a wrapper
C7_Witness ==
  /\ last.op = "goTo"
  /\ last.again
  /\ last.argI \in StepIdx
  /\ last.argI > 0
  /\ Visible(display, last.argI) # {}

IsPrefix(a, b) ==
  Len(a) <= Len(b) /\ SubSeq(b, 1, Len(a)) = a

NoAdjacentDuplicate(h) ==
  \A i \in 1 .. (Len(h) - 1) : h[i] # h[i + 1]

\* C8: history is append-only and free of adjacent duplicates: the history
\* of a state is a prefix of the history of every later state, and no two
\* consecutive entries are equal.
C8_HistoryAppendOnly ==
  /\ [](NoAdjacentDuplicate(history))
  /\ [][IsPrefix(history, history')]_vars

\* C8 witness: a retreat that appended the step it returned to
C8_Witness ==
  /\ last.op = "back"
  /\ Len(history) >= 3
  /\ history[Len(history)] = history[Len(history) - 2]
  /\ history[Len(history)] = currentStep

\* the keys the wrapper resolver was asked for on step s by the handler
\* that ran last
AskedFor(l, s) ==
  {l.shows[i].key : i \in {j \in 1 .. Len(l.shows) : l.shows[j].index = s}}

\* the container-level wrappers that enclose the nested items keyed K of
\* step s
Enclosing(s, K) ==
  {ClosestStepWrapper(s, e) :
     e \in {k \in Keyed(s, K) : Els(s)[k].cls = si}} \cap Wrappers(s)

\* C9 as stated: whenever step 0 is shown, the resolver is asked for the
\* empty key whatever selectedAnswer is, the wrapper of step 0 keyed "" is
\* visible and every other wrapper of step 0 is hidden.
C9_DefaultWrapperOnly ==
  [][AskedFor(last', 0) # {}
       => /\ AskedFor(last', 0) = {""}
          /\ Keyed(0, "") # {}
               => /\ Visible(display', 0) = Keyed(0, "")
                  /\ Hidden(display', 0) = Wrappers(0) \ Keyed(0, "")]_vars

\* C9: whenever step 0 is shown, the resolver is asked for the empty key
\* whatever selectedAnswer is; when exactly one wrapper of step 0 is keyed
\* "", it is visible, and every other wrapper of step 0 is hidden except
\* the container-level wrapper that encloses it when it is a nested item,
\* which is visible as well.
C9_DefaultWrapper ==
  [][AskedFor(last', 0) # {}
       => /\ AskedFor(last', 0) = {""}
          /\ Cardinality(Keyed(0, "")) = 1
               => /\ Visible(display', 0) = Keyed(0, "") \cup Enclosing(0, "")
                  /\ Hidden(display', 0) = Wrappers(0) \ Visible(display', 0)]_vars

\* C9 witness: a retreat to step 0 while the recorded key is that of a
\* wrapper of step 0, which stays hidden
C9_Witness ==
  /\ last.op = "back"
  /\ currentStep = 0
  /\ AskedFor(last, 0) = {""}
  /\ selectedAnswer # ""
  /\ Keyed(0, selectedAnswer) # {}
  /\ Keyed(0, selectedAnswer) \subseteq Hidden(display, 0)
  /\ Keyed(0, "") \subseteq Visible(display, 0)

\* C10: showing a step that has wrappers, none of them keyed as asked,
\* makes the first wrapper in document order its only visible wrapper and
\* hides the others; a shown step that has wrappers has a visible one.
C10_FallbackRendering ==
  [][\A s \in StepIdx : \A K \in AskedFor(last', s) :
       Wrappers(s) # {}
         => /\ Visible(display', s) # {}
            /\ Keyed(s, K) = {}
                 => /\ Visible(display', s) = {First(Wrappers(s))}
                    /\ Hidden(display', s) =
                         Wrappers(s) \ {First(Wrappers(s))}]_vars

\* C10 witness: a step of several wrappers was shown for a recorded key
\* that none of them carries
C10_Witness ==
  \E s \in StepIdx :
    /\ s > 0
    /\ AskedFor(last, s) = {selectedAnswer}
    /\ selectedAnswer # ""
    /\ Cardinality(Wrappers(s)) >= 2
    /\ Keyed(s, selectedAnswer) = {}
    /\ Visible(display, s) = {First(Wrappers(s))}

\* the nested items of step s that container-level wrapper c encloses
Items(s, c) ==
  {e \in Wrappers(s) : Els(s)[e].cls = si /\ ClosestStepWrapper(s, e) = c}

\* C11: showing a step for key K, where K is the key of one nested item
\* under a container-level wrapper (and of no other wrapper of the step but,
\* possibly, that container), makes the item visible, hides the other
\* nested items of the container and makes the container visible, whatever
\* the key of the container and whatever was displayed before.
C11_NestedSuppression ==
  [][\A s \in StepIdx : \A K \in AskedFor(last', s) : \A b \in Keyed(s, K) :
       (/\ Els(s)[b].cls = si
        /\ ClosestStepWrapper(s, b) # 0
        /\ Keyed(s, K) \subseteq {b, ClosestStepWrapper(s, b)})
       => /\ display'[s][b] = "flex"
          /\ \A a \in Items(s, ClosestStepWrapper(s, b)) \ {b} :
               display'[s][a] = "none"
          /\ display'[s][ClosestStepWrapper(s, b)] = "flex"]_vars

\* C11 witness: item "B" among the items "A", "B", "C" of a container with
\* another key was shown
C11_Witness ==
  \E s \in StepIdx : \E b \in Keyed(s, "B") :
    /\ AskedFor(last, s) = {"B"}
    /\ Els(s)[b].cls = si
    /\ ClosestStepWrapper(s, b) \in Wrappers(s) \ Keyed(s, "B")
    /\ Cardinality(Items(s, ClosestStepWrapper(s, b))) = 3
    /\ display[s][b] = "flex"
    /\ display[s][ClosestStepWrapper(s, b)] = "flex"

\* C12: the next action on the last step, when the step is valid and
\* nothing in it yields a destination key, raises formComplete and leaves
\* currentStep and history unchanged.
C12_TerminalAdvanceCompletes ==
  [][(/\ last'.op = "next"
      /\ currentStep = Total - 1
      /\ ValidateStep(currentStep)
      /\ ~Branching(currentStep)
      /\ ~CarriesGoTo(currentStep))
       => /\ Raised(last'.events, "formComplete")
          /\ UNCHANGED <<currentStep, history>>]_vars

\* C13: an in-range goToStep(i) raises formComplete exactly when i = N-1
\* and currentStep was N-1 before the call, after the stepChange it
\* dispatches; every other in-range goToStep dispatches stepChange only.
C13_CompletionOnRepeat ==
  [][(last'.op = "goTo" /\ last'.argI \in StepIdx)
       => /\ Raised(last'.events, "formComplete")
               <=> (last'.argI = Total - 1 /\ currentStep = Total - 1)
          /\ last'.events =
               IF last'.argI = Total - 1 /\ currentStep = Total - 1
               THEN <<Evt("stepChange", last'.argI), Evt("formComplete", -1)>>
               ELSE <<Evt("stepChange", last'.argI)>>]_vars

\* C13 witness: goToStep(N-1) on the last of several steps raised
\* formComplete
C13_Witness ==
  /\ last.op = "goTo"
  /\ Total >= 2
  /\ last.argI = Total - 1
  /\ Raised(last.events, "formComplete")

\* C14: formComplete is raised by the next action on the last step only:
\* neither editField, nor an edit-mode save or cancel, nor the timeout of
\* editField or of a save ever raises it.
C14_CompletionOnlyByAdvance ==
  [][last'.op \in {"editField", "editTimer", "save", "saveTimer", "cancel"}
       => ~Raised(last'.events, "formComplete")]_vars

\* C15: the next action on a step that carries data-form-no-input never
\* fails validation: it goes on to resolve its destination, also when
\* required fields of the step are empty or unchecked.
C15_InputFreeBypass ==
  [][(/\ last'.op = "next"
      /\ currentStep \in StepIdx
      /\ form.steps[currentStep + 1].noInput)
       => last'.path # "invalid"]_vars

\* C16: when the next action obtains key K, some step holds a wrapper
\* keyed exactly K and an earlier step holds a wrapper whose key differs
\* from K in letter case only, the destination is the first step that
\* holds a wrapper keyed exactly K.
C16_ExactBeforeRelaxed ==
  [][(currentStep \in StepIdx) =>
     (\A K \in ObtainedKeys(currentStep) :
       (/\ last'.op = "next"
        /\ ValidateStep(currentStep)
        /\ K # ""
        /\ ExactSteps(K) # {}
        /\ \E s \in RelaxedSteps(K) : s < First(ExactSteps(K)))
       => currentStep' = First(ExactSteps(K)))]_vars

\* C17: the back action on step i > 0 makes currentStep i-1 whichever step
\* was visited before i, appends i-1 to history and leaves selectedAnswer
\* unchanged; on step 0 it changes nothing and dispatches nothing.
C17_RetreatByIndex ==
  [][last'.op = "back"
       => IF currentStep > 0
          THEN /\ currentStep' = currentStep - 1
               /\ history' = Append(history, currentStep - 1)
               /\ selectedAnswer' = selectedAnswer
          ELSE /\ UNCHANGED <<currentStep, history, selectedAnswer,
                              currentIndex, stepDisplay, display, editBar>>
               /\ last'.events = <<>>]_vars

\* C17 witness: a retreat to i-1 from a step i that was entered from
\* another step than i-1, under a recorded key
C17_Witness ==
  /\ last.op = "back"
  /\ Len(history) >= 3
  /\ history[Len(history)] = currentStep
  /\ history[Len(history) - 1] = currentStep + 1
  /\ history[Len(history) - 2] # currentStep
  /\ selectedAnswer # ""

\* the wrapper that owns the control named n, and its key
Owner(n) ==
  ClosestAnswer(FieldNamed(n).step, FieldNamed(n).el)

\* C18: in a form that has a summary, editField for a field of step s
\* whose closest wrapper has the non-empty key K sets selectedAnswer to K
\* and goes to step s: afterwards currentStep = s, step s was shown for K
\* and, for s > 0, that wrapper is visible.
C18_JumpToField ==
  [][\A n \in Names :
       (/\ last'.op = "editField"
        /\ last'.argS = n
        /\ form.summary
        /\ WrapperAnswer(FieldNamed(n)) \notin {NoAttr, ""})
       => /\ selectedAnswer' = WrapperAnswer(FieldNamed(n))
          /\ currentStep' = FieldNamed(n).step
          /\ last'.shows = <<[index |-> FieldNamed(n).step,
                              key |-> AnswerVal(FieldNamed(n).step,
                                                WrapperAnswer(FieldNamed(n)))]>>
          /\ FieldNamed(n).step > 0
               => display'[FieldNamed(n).step][Owner(n)] = "flex"]_vars

\* C18 witness: editField on another step than that of the field brought
\* the engine to the step of the field and its wrapper keyed "A" into view
C18_Witness ==
  /\ last.op = "editField"
  /\ last.argS \in Names
  /\ WrapperAnswer(FieldNamed(last.argS)) = "A"
  /\ currentStep = FieldNamed(last.argS).step
  /\ currentStep > 0
  /\ Len(history) >= 2
  /\ history[Len(history) - 1] # currentStep
  /\ selectedAnswer = "A"
  /\ display[currentStep][Owner(last.argS)] = "flex"

\* C19: editField for a field whose closest wrapper has the empty key, for
\* a field without any wrapper, and for a field that cannot be located,
\* leaves selectedAnswer as it was.
C19_JumpKeepsKey ==
  [][\A n \in Names \cup {"nowhere"} :
       (/\ last'.op = "editField"
        /\ last'.argS = n
        /\ \/ ~EditFieldRuns(n)
           \/ WrapperAnswer(FieldNamed(n)) \in {NoAttr, ""})
       => selectedAnswer' = selectedAnswer]_vars

\* C20: a click on a control that carries data-skip="K", when some step
\* holds a wrapper keyed K, makes the first such step the one displayed
\* step, with its wrapper keyed K visible.
C20_SkipTo ==
  [][\A K \in form.skips :
       (last'.op = "skip" /\ last'.argS = K /\ ExactSteps(K) # {})
       => /\ \A s \in StepIdx :
               stepDisplay'[s] = "flex" <=> s = First(ExactSteps(K))
          /\ Keyed(First(ExactSteps(K)), K)
               \subseteq Visible(display', First(ExactSteps(K)))]_vars

C22_EmptyFormFailsSoft ==
  [][(Total = 0 /\ last'.op \in {"init", "next", "back", "goTo"})
       => /\ last'.path # "fault"
          /\ UNCHANGED <<currentStep, history, selectedAnswer, currentIndex,
                         stepDisplay, display, editBar>>]_vars

\* the value recorded under name n in the data d, NoAttr when there is none
Recorded(d, n) ==
  IF \E r \in Range(d.values) : r.name = n
  THEN (CHOOSE r \in Range(d.values) : r.name = n).value
  ELSE NoAttr

\* C23: at most one flush is pending at any time; a recordField call leaves
\* exactly one pending, holding the value it was given and the other
\* records as they were; and, on a storage that accepts the write, a
\* pending flush eventually fires and leaves under the key of the form a
\* document that holds the latest recorded value of every field.
C23_DebouncedFlush ==
  /\ [](flushes[1] <= 1)
  /\ [][(did'.op = "type" /\ ~did'.fault)
         => /\ flushes'[1] = 1
            /\ \E n \in Named(1) :
                 /\ Recorded(data'[1], n) = controls'[1][n]
                 /\ \A o \in Named(1) \ {n} :
                      Recorded(data'[1], o) = Recorded(data[1], o)]_vars
  /\ (flushes[1] > 0 /\ quota)
       ~> (/\ did.op = "flush"
           /\ \A n \in Named(1) :
                Recorded(LoadFromStorage(storage[Key(1)]), n)
                  = Recorded(data[1], n))

\* C23 witness: the flush fired after edits of both fields and wrote the
\* latest value of each
C23_Witness ==
  /\ did.op = "flush"
  /\ flushes[1] = 0
  /\ Recorded(LoadFromStorage(storage[Key(1)]), "first") = ""
  /\ Recorded(LoadFromStorage(storage[Key(1)]), "a1") = "x"
  /\ controls[1]["first"] = ""
  /\ controls[1]["a1"] = "x"

\* the input events sent to the control named n
Sent(fired, n) ==
  Cardinality({k \in 1 .. Len(fired) : fired[k] = n})

\* C24: what a flush writes loads back as the values recorded; a store
\* constructed over a key loads them and, like every later restore, sets
\* the control of each recorded text field to exactly the recorded value
\* and sends that control one input event.
C24_RestoreRoundTrip ==
  [][/\ (did'.op \in {"flush", "saveAll"} /\ ~did'.fault /\ quota)
         => \A n \in Named(1) :
              Recorded(LoadFromStorage(storage'[Key(1)]), n)
                = Recorded(data'[1], n)
     /\ (did'.op = "new" /\ ~did'.fault)
         => \A n \in Named(1) :
              /\ Recorded(data'[1], n)
                   = Recorded(LoadFromStorage(storage[Key(1)]), n)
              /\ Recorded(data'[1], n) # NoAttr
                   => /\ controls'[1][n] = Recorded(data'[1], n)
                      /\ Sent(did'.fired, n) = 1
     /\ (did'.op = "restore" /\ ~did'.fault)
         => \A n \in Named(1) :
              Recorded(data[1], n) # NoAttr
                => /\ controls'[1][n] = Recorded(data[1], n)
                   /\ Sent(did'.fired, n) = 1]_vars

\* C24 witness: a store constructed over what an earlier one flushed set
\* a control to the recorded value "x" and sent it one input event
C24_Witness ==
  /\ did.op = "new"
  /\ ~did.fault
  /\ Recorded(data[1], "a1") = "x"
  /\ controls[1]["a1"] = "x"
  /\ Sent(did.fired, "a1") = 1
  /\ Recorded(data[1], "first") = NoAttr
  /\ Sent(did.fired, "first") = 0

\* C25: no method of the store throws; a write that the storage refuses
\* leaves the Field Records as they are; and a store constructed over no
\* item, an item that does not parse or one that parses to something else
\* than a document of Field Records is a usable store without records.
C25_NoPersistenceFault ==
  [][/\ ~did'.fault
     /\ (did'.op = "flush" /\ ~quota) => data' = data
     /\ (did'.op = "new" /\ storage[Key(1)] \in Foreign \cup {NoItem})
         => /\ live'[1]
            /\ data'[1] = ObjectData(<<>>)]_vars

\* C26: whether or not the forms carry an id, no method of the Memory of
\* one form changes the item that the Memory of the other form loads and
\* persists.
C26_InstanceIsolation ==
  [][\A i \in Insts :
       did'.inst = i
         => \A j \in Insts \ {i} : storage'[Key(j)] = storage[Key(j)]]_vars

\* the items of the groups gs, each with the index of its group
GroupItems(gs) ==
  UNION {{<<gs[k].index, gs[k].items[j].fieldName, gs[k].items[j].value>>
            : j \in 1 .. Len(gs[k].items)} : k \in 1 .. Len(gs)}

RECURSIVE CountItems(_)
CountItems(gs) ==
  IF gs = <<>> THEN 0 ELSE Len(Head(gs).items) + CountItems(Tail(gs))

\* C27: the summary generated holds exactly the Field Records whose visible
\* flag is true, each once and in the group of its recorded stepIndex; the
\* groups are in ascending stepIndex order and none is empty; a record
\* whose visible flag is false is in no group.
C27_SummaryVisibleOnly ==
  [][/\ GroupItems(groups')
          = {<<r.stepIndex, r.name, r.value>> :
               r \in {e \in Range(entries) : e.isVisible}}
     /\ CountItems(groups')
          = Cardinality({k \in 1 .. Len(entries) : entries[k].isVisible})
     /\ \A k \in 1 .. Len(groups') - 1 :
          groups'[k].index < groups'[k + 1].index
     /\ \A k \in 1 .. Len(groups') : groups'[k].items # <<>>]_vars

\* C27 witness: of three records the one recorded first belongs to step 1,
\* the second is not visible and the third belongs to step 0; the summary
\* has the group of step 0 before the group of step 1
C27_Witness ==
  /\ Len(entries) = 3
  /\ entries[1].isVisible /\ entries[1].stepIndex = 1
  /\ ~entries[2].isVisible
  /\ entries[3].isVisible /\ entries[3].stepIndex = 0
  /\ Len(groups) = 2
  /\ groups[1].index = 0
  /\ groups[2].index = 1

\* C28: the next action on a valid step in which no wrapper element is
\* found (neither a .step_wrapper nor an element that carries data-answer)
\* halts in place: currentStep and history are unchanged, no destination
\* such as currentStep + 1 is taken.
C28_NoWrapperHalts ==
  [][(/\ last'.op = "next"
      /\ currentStep \in StepIdx
      /\ ValidateStep(currentStep)
      /\ FindWrapperGraceful(currentStep) = 0)
       => /\ UNCHANGED <<currentStep, history>>
          /\ ~StepChanged(last'.events)]_vars

\* C30: on a step flagged as branching the next action never takes the
\* linear fallthrough, whatever the destination keys of the checked
\* choices, the empty key included: it leaves the state unchanged or goes
\* where the destination search sends it.
C30_BranchingNeverFallsThrough ==
  [][(/\ last'.op = "next"
      /\ currentStep \in StepIdx
      /\ Branching(currentStep))
       => /\ last'.path # "fallthrough"
          /\ \/ UNCHANGED <<currentStep, history, selectedAnswer>>
             \/ last'.path = "keyed"]_vars

\* C29: on a form authored for the legacy engine, after the same choices
\* and the same next and back clicks, the current engine and the legacy
\* engine are on the same step and display the same wrappers of it.
C29_LegacyEquivalence ==
  phase = "ready"
    => /\ currentStep = legacy.currentStep
       /\ Visible(display, currentStep) = legacy.shown

\* the wrapper of step s that a show for key K selects: the first in
\* document order of those keyed K, the first wrapper when none is
Selected(s, K) ==
  IF Keyed(s, K) # {} THEN First(Keyed(s, K)) ELSE First(Wrappers(s))

\* the container-level wrapper that encloses wrapper e of step s when e
\* is a nested item
Container(s, e) ==
  IF Els(s)[e].cls = si THEN {ClosestStepWrapper(s, e)} \cap Wrappers(s)
  ELSE {}

\* C31: showing a step that has wrappers for key K leaves exactly one of
\* them selected for display, also when several carry K: the first in
\* document order is visible and every other wrapper is hidden, but for
\* the container-level wrapper that encloses it when it is a nested item.
C31_FirstMatchOnly ==
  [][\A s \in StepIdx : \A K \in AskedFor(last', s) :
       Wrappers(s) # {}
         => /\ Selected(s, K) \in Visible(display', s)
            /\ Visible(display', s) \ Container(s, Selected(s, K))
                 = {Selected(s, K)}
            /\ Hidden(display', s) = Wrappers(s) \ Visible(display', s)]_vars

\* the controls of step s that carry an error marker
Marked(m, s) == {e \in ElIdx(s) : <<s, e>> \in m}

\* element e of step s lies in a wrapper that is not displayed
InHidden(d, s, e) ==
  \E w \in Ancestors(s, e) \cap Wrappers(s) : d[s][w] = "none"

\* C32: on a step that is not input-free the next action finds the step
\* valid exactly when every required field below it passes validateField,
\* those inside hidden wrappers included, and afterwards the marked
\* controls of the step are exactly its failing required fields: every
\* one of them is marked and no earlier marker is left.
C32_ValidateStep ==
  [][(/\ last'.op = "next"
      /\ currentStep \in StepIdx
      /\ ~form.steps[currentStep + 1].noInput)
       => /\ (last'.path # "invalid") <=> (Unsatisfied(currentStep) = {})
          /\ Marked(errors', currentStep) = Unsatisfied(currentStep)]_vars

\* C32 witness: the next action ran on a step of which a marked control
\* passes by now and a failing required field lies in a hidden wrapper
C32_Witness ==
  /\ last.op = "next"
  /\ last.path = "invalid"
  /\ currentStep \in StepIdx
  /\ \E e \in Unsatisfied(currentStep) :
       /\ InHidden(display, currentStep, e)
       /\ <<currentStep, e>> \in errors

\* C33: selectedAnswer changes only when the next action, on a valid
\* step, obtains a non-empty destination key that some wrapper carries, to
\* that key, and on editField: goToStep, a retreat, the sequential
\* fallthrough, an advance that is refused for an invalid field, a missing
\* choice or a dangling key, a skip, and checking a choice without
\* advancing leave it as it is.
C33_KeyChangesOnlyOnAdvance ==
  [][selectedAnswer' # selectedAnswer
       => \/ last'.op = "editField"
          \/ /\ last'.op = "next"
             /\ currentStep \in StepIdx
             /\ ValidateStep(currentStep)
             /\ selectedAnswer' \in ObtainedKeys(currentStep) \ {""}
             /\ RelaxedSteps(selectedAnswer') # {}]_vars

\* the step containers that are displayed
Displayed == {s \in StepIdx : stepDisplay[s] = "flex"}

\* C34: once init has run on a form of at least one step, exactly one
\* step container is displayed, and its index is both currentStep of the
\* FormManager and currentIndex of the Navigation, after a skip as well.
C34_OneStepInSync ==
  (phase = "ready" /\ Total >= 1)
    => /\ Displayed = {currentStep}
       /\ currentIndex = currentStep

\* the destination keys that the displayed wrappers of step s carry
VisibleGoTo(d, s) ==
  {Els(s)[e].goTo : e \in Visible(d, s)} \ {NoAttr}

\* the destination keys that the wrappers of step s carry
WrapperGoTo(s) ==
  {Els(s)[e].goTo : e \in Wrappers(s)} \ {NoAttr}

\* C35: on a valid step that is not branching and whose wrappers carry
\* several destination keys, one of them displayed, the next action takes
\* the destination key of a displayed wrapper, never that of a hidden
\* wrapper of the step.
C35_TargetOfVisibleWrapper ==
  [][(/\ last'.op = "next"
      /\ currentStep \in StepIdx
      /\ ValidateStep(currentStep)
      /\ ~Branching(currentStep)
      /\ Cardinality(WrapperGoTo(currentStep)) >= 2
      /\ VisibleGoTo(display, currentStep) # {})
       => /\ last'.path = "keyed"
          /\ selectedAnswer' \in VisibleGoTo(display, currentStep)]_vars

\* the handler that ran last was a next action that moved from step i to
\* step i + 1
Advanced(l, i) ==
  l.op = "next" /\ l.argI = i /\ currentStep = i + 1

RecordedVisible(es, n) ==
  \E k \in 1 .. Len(es) : es[k].name = n /\ es[k].isVisible

\* the summary that was rendered last lists the field named n
Listed(gs, n) ==
  \E k \in 1 .. Len(gs) : \E j \in 1 .. Len(gs[k].items) :
    gs[k].items[j].fieldName = n

\* C37: an edit-mode save that is accepted leaves the Field Record of
\* every other field that lies on another step and was recorded as
\* visible flagged as visible, and the summary it renders lists that
\* field.
C37_SaveKeepsVisible ==
  [][\A n \in Names :
       (/\ last'.op = "save"
        /\ last'.path = "saved"
        /\ RecordedVisible(entries, n)
        /\ FieldNamed(n) # editBar
        /\ FieldNamed(n).step # editBar.step)
       => /\ RecordedVisible(entries', n)
          /\ Listed(groups', n)]_vars

\* C38: right after a next action that resolved a destination key K, the
\* wrapper that the destination search matches for K on the step arrived
\* at, exactly or up to letter case, is the wrapper displayed there (with
\* its enclosing container when it is a nested item), on step 0 as well;
\* it is never the first-wrapper fallback.
C38_MatchedWrapperShown ==
  [][(last'.op = "next" /\ last'.path = "keyed")
       => /\ FindAnswerElementGraceful(currentStep', selectedAnswer')
               \in Wrappers(currentStep')
          /\ Visible(display', currentStep')
               \ Container(currentStep',
                           FindAnswerElementGraceful(currentStep',
                                                     selectedAnswer'))
              = {FindAnswerElementGraceful(currentStep', selectedAnswer')}]_vars


\* C39: whenever the edit bar is attached, the field it belongs to lies in
\* the step that is displayed: its step is the current step and that step
\* is on screen, whatever happened between the jump to the field and the
\* firing of its timer.
C39_EditBarOnDisplayedStep ==
  editBar # None
    => /\ editBar.step = currentStep
       /\ stepDisplay[editBar.step] # "none"

====
